---- MODULE Spec2Model ----
(***************************************************************************)
(* Pipeline control plane of lecture_to_notes: the checkpoint store         *)
(* (checkpoint.py), the orchestrator (orchestrator.py: run_single_url_      *)
(* pipeline, run_multi_url_pipeline) and the job wrapper that drives it     *)
(* with a progress callback and a cancel event (api/job_manager.py).        *)
(*                                                                         *)
(* Sources are identified by their 1-based order; the URLs of one batch are *)
(* distinct. Stage results are abstract records that remember the source    *)
(* they were produced from. Messages are sequences of strings; the         *)
(* empty sequence stands for None / the empty string.                       *)
(***************************************************************************)
EXTENDS Integers, Sequences, FiniteSets, TLC

\* ------------------------------------------------------------------ bounds
MaxSources == 3
MaxRuns == 3
MaxResumeSources == 2

\* ----------------------------------------------------------------- statuses
\* schemas/pipeline_state.py: URLStatus
URLStatus ==
  {"pending", "downloading", "downloaded", "transcribing", "transcribed",
   "enriching", "enriched", "compiling", "compiled", "pdf_generating",
   "pdf_generated", "failed"}

\* URLStatus.VALIDATING / URLStatus.VALIDATED: assigned by the orchestrator
\* (orchestrator.py lines 233, 238, 572) but declared nowhere in
\* schemas/pipeline_state.py; taken from the state machine of the design.
ValidationStatus == {"validating", "validated"}

\* exceptions.py: the exception classes (all siblings under LectureBookException)
\* plus JobCancelled (api/job_manager.py).
PipelineErrorT == "PipelineError"
JobCancelledT == "JobCancelled"

\* ValidationError is imported by agents/validation_agent.py from exceptions.py,
\* which does not declare it; modelled as one more sibling of the stage errors
\* (an Exception that is not a PipelineError).
ValidationErrorT == "ValidationError"

NoExc == [type |-> "none"]
Exc(t, m) == [type |-> t, msg |-> m]

\* ---------------------------------------------------------- checkpoint store
NoFile == [kind |-> "none"]
Orders == 1..MaxSources

manifest_json == <<"manifest", 0>>
book_output_json == <<"book", 0>>
transcript_json(i) == <<"transcript", i>>
enriched_json_mut(i) == <<"enriched", 1>>
enriched_json(i) == <<"enriched", i>>
validation_json(i) == <<"validation", i>>

Files ==
  {manifest_json, book_output_json}
    \cup {transcript_json(i) : i \in Orders}
    \cup {enriched_json(i) : i \in Orders}
    \cup {validation_json(i) : i \in Orders}

Exists(s, f) == s[f] # NoFile

\* variant: the write is lost
save_checkpoint_mut(s, f, content) == s
\* save_*_checkpoint: path.write_text(...) overwrites the file of that stage/order.
save_checkpoint(s, f, content) == [s EXCEPT ![f] = content]

\* load_*_checkpoint: the stored value (the caller has checked it exists).
load_checkpoint(s, f) == s[f]

\* range(1, url_count + 1)
RangeSeq(n) == [i \in 1..n |-> i]

\* variant: the scan stops at the first path that does not exist
MissingOf_mut(s, names, acc) ==
  LET absent == {i \in DOMAIN names : s[names[i]] = NoFile}
  IN IF acc # <<>> \/ absent = {} THEN acc
     ELSE <<names[CHOOSE i \in absent : \A k \in absent : i <= k]>>

RECURSIVE MissingOf(_, _, _)
\* the paths of `names` (in order) that do not exist, appended to acc
MissingOf(s, names, acc) ==
  IF names = <<>> THEN acc
  ELSE MissingOf(s, Tail(names),
                 IF Exists(s, Head(names)) THEN acc ELSE Append(acc, Head(names)))

\* variant: range(1, url_count), the last source is not looked at
transcript_paths_mut(url_count) == [i \in 1..(url_count - 1) |-> transcript_json(i)]
\* the paths of range(1, url_count + 1)
transcript_paths(url_count) == [i \in 1..url_count |-> transcript_json(i)]
enriched_paths(url_count) == [i \in 1..url_count |-> enriched_json(i)]

\* len([r for r in manifest.results if r.success])
CountSuccess(m) == Cardinality({i \in DOMAIN m.ok : m.ok[i]})

\* validate_checkpoints_for_from_agent(from_agent, output_dir, url_count):
\* the result is [raised |-> BOOLEAN, missing |-> the paths listed in the error].
\* url_count = -1 stands for None.
validate_checkpoints_for_from_agent(fa, s, url_count_in) ==
  IF fa < 2 THEN [raised |-> FALSE, missing |-> <<>>]
  ELSE
    LET m0 == MissingOf(s, <<manifest_json>>, <<>>)
        url_count ==
          IF Exists(s, manifest_json) /\ url_count_in = -1
          THEN CountSuccess(s[manifest_json])
          ELSE url_count_in
    IN IF url_count = -1 THEN [raised |-> TRUE, missing |-> m0]
       ELSE
         LET m1 == IF fa >= 3 THEN MissingOf(s, transcript_paths(url_count), m0) ELSE m0
             m2 == IF fa >= 4 THEN MissingOf(s, enriched_paths(url_count), m1) ELSE m1
             m3 == IF fa >= 5 THEN MissingOf(s, <<book_output_json>>, m2) ELSE m2
         IN [raised |-> m3 # <<>>, missing |-> m3]


\* ------------------------------------------------------------ stage results
\* DownloadManifest: ok[i] is results[i].success of the i-th URL.
Manifest(okfn) == [kind |-> "manifest", ok |-> okfn]
\* TranscriptOutput; bad: the transcript trips a CRITICAL check of the quality gate
Transcript(i, b) == [kind |-> "transcript", src |-> i, bad |-> b]
\* EnrichedNotes, computed from a transcript
Enriched(t) == [kind |-> "enriched", src |-> t.src]
\* ValidationReport
Report(t, e) == [kind |-> "validation", src |-> e.src]

\* variant: the quality gate lets every pair through
ValidationRaises_mut(t, e) == FALSE

\* agents/validation_agent.py run_validation_pipeline: raises when a CRITICAL
\* check fails (not report.overall_pass), else returns the report.
ValidationRaises(t, e) == t.bad

\* orig_urls = [r.url for r in manifest.results if r.success]
RECURSIVE SuccessUrls(_, _)
SuccessUrls(m, i) ==
  IF i > Len(m.ok) THEN <<>>
  ELSE (IF m.ok[i] THEN <<i>> ELSE <<>>) \o SuccessUrls(m, i + 1)

orig_urls(m) == SuccessUrls(m, 1)

\* variant: the chapters are numbered from the last pair to the first
organize_chapters_mut(pairs) ==
  [k \in 1..Len(pairs) |-> [number |-> k, source |-> pairs[Len(pairs) + 1 - k].t.src,
                            transcript |-> pairs[Len(pairs) + 1 - k].t,
                            enriched |-> pairs[Len(pairs) + 1 - k].e]]
\* tools/chapter_organizer.py organize_chapters, mode == "multi": one chapter per
\* (enriched, transcript) pair, numbered by position. In mode "single" the one
\* transcript is one chapter unless it is split at pauses (not modelled: the
\* single transcript is kept whole).
organize_chapters(pairs) ==
  [k \in 1..Len(pairs) |-> [number |-> k, source |-> pairs[k].t.src,
                            transcript |-> pairs[k].t, enriched |-> pairs[k].e]]

\* agents/compiler_agent.py run_compiler_pipeline: chapters, and one source
\* reference per transcript whose url is original_urls[i - 1] when there is one,
\* else the transcript's own audio.
run_compiler_pipeline(pairs, urls) ==
  [kind |-> "book",
   chapters |-> organize_chapters(pairs),
   source_references |->
     [k \in 1..Len(pairs) |->
        [order |-> k,
         url |-> IF k <= Len(urls) THEN <<"url", urls[k]>> ELSE <<"audio", pairs[k].t.src>>]]]

\* ------------------------------------------------------------------- state
VARIABLES
  N,             \* number of URLs of the job (len(urls))
  mode,          \* "single" | "multi": which pipeline function the job calls
  generate_pdf,  \* config flag
  from_agent,    \* from_agent of the current run
  runNo,         \* the current run on this run directory: 1, 2, ...
  store,         \* <run_dir>/checkpoints: file -> content or NoFile
  written,       \* files written by the current run
  url_states,    \* PipelineState.url_states of the current run (<<>> before it is built)
  state_errors,  \* PipelineState.errors
  run,           \* locals of the running pipeline function and its position
  invoked,       \* stage runner invocations of the current run: <<stage, source>>
  record,        \* the JobRecord of the current run
  prev           \* what the previous run on this directory did

vars == <<N, mode, generate_pdf, from_agent, runNo, store, written, url_states,
          state_errors, run, invoked, record, prev>>

Src == 1..N

\* PerURLState(url, order): status PENDING, error None, no outputs
PerURLState == [status |-> "pending", error |-> <<>>,
                transcript_output |-> NoFile, enriched_output |-> NoFile]

\* the locals of run_single_url_pipeline / run_multi_url_pipeline
FreshRun ==
  [pc |-> "queued", idx |-> 0, manifest |-> NoFile, successful |-> <<>>,
   transcripts |-> <<>>, enriched_list |-> <<>>, validated |-> <<>>,
   book |-> NoFile, pdf_output |-> FALSE, raised |-> NoExc]

\* JobManager.submit_job / retry_job: a new JobRecord, QUEUED, all urls pending
JobRecord ==
  [status |-> "queued", current_step |-> "pending", error |-> <<>>,
   url_progress |-> [i \in Src |-> [status |-> "pending", error |-> <<>>]],
   cancel_event |-> FALSE, output_dir |-> FALSE, saved |-> FALSE]

\* JobManager._save_job: job_meta.json is written under record.output_dir; with
\* no output_dir on the record the call returns without writing.
save_job(rec) ==
  IF rec.output_dir THEN [rec EXCEPT !.saved = TRUE] ELSE rec

NoPrev == [from_agent |-> 0, returned |-> FALSE, book |-> NoFile]

Init ==
  /\ N \in 1..MaxSources
  /\ mode \in {"single", "multi"}
  /\ mode = "single" => N = 1
  /\ generate_pdf \in BOOLEAN
  /\ from_agent \in 1..5
  /\ runNo = 1
  /\ store = [f \in Files |-> NoFile]
  /\ written = {}
  /\ url_states = <<>>
  /\ state_errors = <<>>
  /\ run = FreshRun
  /\ invoked = {}
  /\ record = JobRecord
  /\ prev = NoPrev

inputs == <<N, mode, generate_pdf, from_agent, runNo, prev>>

\* ------------------------------------------------------------- job wrapper
CancelMsg == <<"Job cancelled by user">>

\* _on_progress(step) when the cancel event is not set: current step and the
\* url_progress entries that are neither completed nor failed follow the step.
OnProgress(rec, step) ==
  [rec EXCEPT !.current_step = step,
              !.url_progress =
                 [i \in Src |->
                    IF rec.url_progress[i].status \notin {"completed", "failed"}
                    THEN [rec.url_progress[i] EXCEPT !.status = step]
                    ELSE rec.url_progress[i]]]

agent_to_step(fa) ==
  CASE fa = 1 -> "downloading" [] fa = 2 -> "transcribing" [] fa = 3 -> "enriching"
    [] fa = 4 -> "compiling" [] OTHER -> "pdf_generating"

\* JobManager._run_pipeline, lines 339-376: the worker picks the job up; the first
\* _on_progress call is made before the try block, so a cancel event that is
\* already set raises JobCancelled out of the worker.
WorkerStart ==
  /\ run.pc = "queued"
  /\ IF record.cancel_event
     THEN /\ record' = [record EXCEPT !.status = "running",
                                      !.current_step = agent_to_step(from_agent)]
          /\ run' = [run EXCEPT !.pc = "dead", !.raised = Exc(JobCancelledT, CancelMsg)]
     ELSE /\ record' = OnProgress([record EXCEPT !.status = "running"],
                                  agent_to_step(from_agent))
          /\ run' = [run EXCEPT !.pc = "entry"]
  /\ UNCHANGED <<inputs, store, written, url_states, state_errors, invoked>>

\* JobManager.cancel_job(job_id, force)
cancel_job(force) ==
  /\ record.status \in {"queued", "running"}
  /\ record' =
       IF force \/ record.cancel_event
       THEN save_job([record EXCEPT
               !.cancel_event = TRUE, !.status = "failed", !.current_step = "failed",
               !.error = <<"Cancelled by user">>,
               !.url_progress =
                  [i \in Src |->
                     IF record.url_progress[i].status \notin {"completed", "failed"}
                     THEN [status |-> "cancelled", error |-> <<"Cancelled by user">>]
                     ELSE record.url_progress[i]]])
       ELSE [record EXCEPT !.cancel_event = TRUE]
  /\ UNCHANGED <<inputs, store, written, url_states, state_errors, run, invoked>>

\* JobManager._run_pipeline, lines 400-460: the pipeline function returned or
\* raised; the record is completed (its output_dir set from the book's path),
\* cancelled or failed, and then handed to _save_job.
JobFinish ==
  /\ run.pc = "finish"
  /\ run' = [run EXCEPT !.pc = "done"]
  /\ record' = save_job(
       IF run.raised = NoExc
       THEN [record EXCEPT
               !.status = "completed", !.current_step = "completed",
               !.output_dir = TRUE,
               !.url_progress = [i \in Src |-> [record.url_progress[i] EXCEPT !.status = "completed"]]]
       ELSE IF run.raised.type = JobCancelledT
       THEN [record EXCEPT
               !.status = "failed", !.current_step = "failed",
               !.error = <<"Cancelled by user">>,
               !.url_progress =
                  [i \in Src |->
                     IF record.url_progress[i].status # "completed"
                     THEN [status |-> "cancelled", error |-> <<"Cancelled by user">>]
                     ELSE record.url_progress[i]]]
       ELSE [record EXCEPT
               !.status = "failed", !.current_step = "failed",
               !.error = run.raised.msg,
               !.url_progress =
                  [i \in Src |->
                     IF record.url_progress[i].status # "completed"
                     THEN [status |-> "failed", error |-> run.raised.msg]
                     ELSE record.url_progress[i]]])
  /\ UNCHANGED <<inputs, store, written, url_states, state_errors, invoked>>


\* ------------------------------------------------- orchestrator, common parts
job == <<store, written, url_states, state_errors, invoked, record>>

\* an exception leaves the pipeline function
Raise(e) == run' = [run EXCEPT !.pc = "finish", !.raised = e]

\* progress_callback raised JobCancelled outside any try block
RaiseCancelled ==
  /\ Raise(Exc(JobCancelledT, CancelMsg))
  /\ UNCHANGED job

\* return book, pdf_output
Return == run' = [run EXCEPT !.pc = "finish"]

\* state.errors.append({"url": url_state.url, "error": error})
UrlError(i, m) == [url |-> i, phase |-> "", error |-> m]
\* state.errors.append({"phase": "validation", "error": str(e)})
PhaseError(m) == [url |-> 0, phase |-> "validation", error |-> m]

\* variant: the pre-flight check is left out
PreflightFails_mut == FALSE
\* lines 110-111 and 374-375: url_count is 1, or len(urls)
PreflightFails == from_agent > 1 /\ validate_checkpoints_for_from_agent(from_agent, store, N).raised

\* orchestrator.py lines 99-121 and 359-387: argument checks, resolve_run_dir,
\* the pre-flight validate_checkpoints_for_from_agent when from_agent > 1, then
\* PipelineState and state.add_url for every url.
Preflight ==
  /\ run.pc = "entry"
  /\ IF PreflightFails
     THEN /\ Raise(Exc(PipelineErrorT, <<"missing checkpoint file(s)">>))
          /\ UNCHANGED url_states
     ELSE /\ url_states' = [i \in Src |-> PerURLState]
          /\ run' = [run EXCEPT !.pc = IF mode = "single" THEN "s_download" ELSE "m_download"]
  /\ UNCHANGED <<inputs, store, written, state_errors, invoked, record>>

\* ------------------------------------------------ run_multi_url_pipeline
\* lines 389-398 (download all, save manifest) or 411-413 (load manifest)
M_Download ==
  /\ run.pc = "m_download"
  /\ IF from_agent <= 1
     THEN IF record.cancel_event
          THEN RaiseCancelled
          ELSE \E ok \in [Src -> BOOLEAN] :
                 LET m == Manifest(ok) IN
                   /\ record' = OnProgress(record, "downloading")
                   /\ invoked' = invoked \cup {<<"download", 0>>}
                   /\ store' = save_checkpoint(store, manifest_json, m)
                   /\ written' = written \cup {manifest_json}
                   /\ run' = [run EXCEPT !.manifest = m, !.pc = "m_download_mark", !.idx = 1]
                   /\ UNCHANGED <<url_states, state_errors>>
     ELSE /\ run' = [run EXCEPT !.manifest = load_checkpoint(store, manifest_json),
                                !.pc = "m_download_mark", !.idx = 1]
          /\ UNCHANGED job
  /\ UNCHANGED inputs

\* lines 400-410 (fresh) and 414-420 (resumed): one iteration of the loop over
\* state.url_states
M_DownloadMark ==
  /\ run.pc = "m_download_mark"
  /\ LET i == run.idx
         ok == run.manifest.ok[i]
         error == <<"download error">>
     IN /\ url_states' =
             IF ok THEN [url_states EXCEPT ![i].status = "downloaded"]
             ELSE IF from_agent <= 1
             THEN [url_states EXCEPT ![i].status = "failed", ![i].error = error]
             ELSE [url_states EXCEPT ![i].status = "failed"]
        /\ state_errors' =
             IF ~ok /\ from_agent <= 1 THEN Append(state_errors, UrlError(i, error))
             ELSE state_errors
        /\ run' = [run EXCEPT !.idx = i + 1,
                              !.pc = IF i = N THEN "m_transcribe_start" ELSE "m_download_mark"]
  /\ UNCHANGED <<inputs, store, written, invoked, record>>

\* variant: no filter on the status
Successful_mut == RangeSeq(N)
\* successful = [u for u in state.url_states if u.status == URLStatus.DOWNLOADED]
Successful == SelectSeq(RangeSeq(N), LAMBDA i : url_states[i].status = "downloaded")

\* lines 422-438 / 461
M_TranscribeStart ==
  /\ run.pc = "m_transcribe_start"
  /\ IF Successful = <<>>
     THEN Raise(Exc(PipelineErrorT, <<"All downloads failed">>)) /\ UNCHANGED job
     ELSE IF from_agent <= 2
     THEN IF record.cancel_event
          THEN RaiseCancelled
          ELSE /\ record' = OnProgress(record, "transcribing")
               /\ run' = [run EXCEPT !.successful = Successful, !.pc = "m_transcribe", !.idx = 1]
               /\ UNCHANGED <<store, written, url_states, state_errors, invoked>>
     ELSE /\ run' = [run EXCEPT !.successful = Successful, !.pc = "m_transcribe_load", !.idx = 1]
          /\ UNCHANGED job
  /\ UNCHANGED inputs

\* after one iteration over a list of length n: the next iteration or the next phase
Advance(r, n, again, after) ==
  [r EXCEPT !.idx = r.idx + 1, !.pc = IF r.idx >= n THEN after ELSE again]

\* lines 441-450: status TRANSCRIBING, run_transcription_pipeline is called
M_TranscribeBegin ==
  /\ run.pc = "m_transcribe"
  /\ LET i == run.successful[run.idx] IN
       /\ url_states' = [url_states EXCEPT ![i].status = "transcribing"]
       /\ invoked' = invoked \cup {<<"transcribe", i>>}
  /\ run' = [run EXCEPT !.pc = "m_transcribe_end"]
  /\ UNCHANGED <<inputs, store, written, state_errors, record>>

\* lines 451-459: the runner returned (status, checkpoint, append) or raised
M_TranscribeEnd ==
  /\ run.pc = "m_transcribe_end"
  /\ LET i == run.successful[run.idx]
         nxt == Advance(run, Len(run.successful), "m_transcribe", "m_enrich_start")
     IN \E res \in {"ok", "bad", "raise"} :
          IF res # "raise"
          THEN LET t == Transcript(i, res = "bad") IN
                 /\ url_states' = [url_states EXCEPT ![i].transcript_output = t,
                                                     ![i].status = "transcribed"]
                 /\ store' = save_checkpoint(store, transcript_json(i), t)
                 /\ written' = written \cup {transcript_json(i)}
                 /\ run' = [nxt EXCEPT !.transcripts = Append(run.transcripts, i)]
                 /\ UNCHANGED state_errors
          ELSE /\ url_states' = [url_states EXCEPT ![i].status = "failed",
                                                   ![i].error = <<"transcription error">>]
               /\ state_errors' = Append(state_errors, UrlError(i, <<"transcription error">>))
               /\ run' = nxt
               /\ UNCHANGED <<store, written>>
  /\ UNCHANGED <<inputs, invoked, record>>

\* lines 462-466: load_transcript_checkpoint
M_TranscribeLoad ==
  /\ run.pc = "m_transcribe_load"
  /\ LET i == run.successful[run.idx]
         t == load_checkpoint(store, transcript_json(i))
     IN /\ url_states' = [url_states EXCEPT ![i].transcript_output = t,
                                            ![i].status = "transcribed"]
        /\ run' = [Advance(run, Len(run.successful), "m_transcribe_load", "m_enrich_start")
                     EXCEPT !.transcripts = Append(run.transcripts, i)]
  /\ UNCHANGED <<inputs, store, written, state_errors, invoked, record>>

\* variant: phase 3 starts without calling the progress callback
M_EnrichStart_mut ==
  /\ run.pc = "m_enrich_start"
  /\ IF run.transcripts = <<>>
     THEN Raise(Exc(PipelineErrorT, <<"All transcriptions failed">>))
     ELSE run' = [run EXCEPT !.pc = IF from_agent <= 3 THEN "m_enrich" ELSE "m_enrich_load",
                             !.idx = 1]
  /\ UNCHANGED <<inputs, store, written, url_states, state_errors, invoked, record>>
\* lines 468-477 / 499
M_EnrichStart ==
  /\ run.pc = "m_enrich_start"
  /\ IF run.transcripts = <<>>
     THEN Raise(Exc(PipelineErrorT, <<"All transcriptions failed">>)) /\ UNCHANGED job
     ELSE IF from_agent <= 3
     THEN IF record.cancel_event
          THEN RaiseCancelled
          ELSE /\ record' = OnProgress(record, "enriching")
               /\ run' = [run EXCEPT !.pc = "m_enrich", !.idx = 1]
               /\ UNCHANGED <<store, written, url_states, state_errors, invoked>>
     ELSE /\ run' = [run EXCEPT !.pc = "m_enrich_load", !.idx = 1]
          /\ UNCHANGED job
  /\ UNCHANGED inputs

\* lines 480-487
M_EnrichBegin ==
  /\ run.pc = "m_enrich"
  /\ LET i == run.transcripts[run.idx] IN
       /\ url_states' = [url_states EXCEPT ![i].status = "enriching"]
       /\ invoked' = invoked \cup {<<"enrich", i>>}
  /\ run' = [run EXCEPT !.pc = "m_enrich_end"]
  /\ UNCHANGED <<inputs, store, written, state_errors, record>>

\* lines 488-497
M_EnrichEnd ==
  /\ run.pc = "m_enrich_end"
  /\ LET i == run.transcripts[run.idx]
         t == url_states[i].transcript_output
         nxt == Advance(run, Len(run.transcripts), "m_enrich", "m_validate_start")
     IN \E ok \in BOOLEAN :
          IF ok
          THEN LET e == Enriched(t) IN
                 /\ url_states' = [url_states EXCEPT ![i].enriched_output = e,
                                                     ![i].status = "enriched"]
                 /\ store' = save_checkpoint(store, enriched_json(i), e)
                 /\ written' = written \cup {enriched_json(i)}
                 /\ run' = [nxt EXCEPT !.enriched_list = Append(run.enriched_list, [t |-> t, e |-> e])]
                 /\ UNCHANGED state_errors
          ELSE /\ url_states' = [url_states EXCEPT ![i].status = "failed",
                                                   ![i].error = <<"enrichment error">>]
               /\ state_errors' = Append(state_errors, UrlError(i, <<"enrichment error">>))
               /\ run' = nxt
               /\ UNCHANGED <<store, written>>
  /\ UNCHANGED <<inputs, invoked, record>>

\* lines 500-505: load_enriched_checkpoint
M_EnrichLoad ==
  /\ run.pc = "m_enrich_load"
  /\ LET i == run.transcripts[run.idx]
         t == url_states[i].transcript_output
         e == load_checkpoint(store, enriched_json(i))
     IN /\ url_states' = [url_states EXCEPT ![i].enriched_output = e,
                                            ![i].status = "enriched"]
        /\ run' = [Advance(run, Len(run.transcripts), "m_enrich_load", "m_validate_start")
                     EXCEPT !.enriched_list = Append(run.enriched_list, [t |-> t, e |-> e])]
  /\ UNCHANGED <<inputs, store, written, state_errors, invoked, record>>

\* lines 507-515
M_ValidateStart ==
  /\ run.pc = "m_validate_start"
  /\ IF run.enriched_list = <<>>
     THEN Raise(Exc(PipelineErrorT, <<"All enrichments failed">>)) /\ UNCHANGED job
     ELSE IF record.cancel_event
     THEN RaiseCancelled
     ELSE /\ record' = OnProgress(record, "validating")
          /\ run' = [run EXCEPT !.pc = "m_validate", !.idx = 1]
          /\ UNCHANGED <<store, written, url_states, state_errors, invoked>>
  /\ UNCHANGED inputs

\* lines 516-527: one iteration of enumerate(zip(enriched_list, transcript_list));
\* the validation checkpoint is saved under order = i + 1, the position in the list
M_Validate ==
  /\ run.pc = "m_validate"
  /\ LET p == run.idx
         pair == run.enriched_list[p]
         nxt == Advance(run, Len(run.enriched_list), "m_validate", "m_validate_end")
     IN /\ invoked' = invoked \cup {<<"validate", pair.e.src>>}
        /\ IF ValidationRaises(pair.t, pair.e)
           THEN /\ state_errors' = Append(state_errors, PhaseError(<<"validation failed">>))
                /\ run' = nxt
                /\ UNCHANGED <<store, written>>
           ELSE /\ store' = save_checkpoint(store, validation_json(p), Report(pair.t, pair.e))
                /\ written' = written \cup {validation_json(p)}
                /\ run' = [nxt EXCEPT !.validated = Append(run.validated, pair)]
                /\ UNCHANGED state_errors
  /\ UNCHANGED <<inputs, url_states, record>>

\* lines 529-549
M_ValidateEnd ==
  /\ run.pc = "m_validate_end"
  /\ IF run.validated = <<>>
     THEN Raise(Exc(PipelineErrorT, <<"All outputs failed validation">>)) /\ UNCHANGED job
     ELSE IF record.cancel_event
     THEN RaiseCancelled
     ELSE /\ record' = OnProgress(record, "validating")
          /\ run' = [run EXCEPT !.enriched_list = run.validated, !.pc = "m_compile"]
          /\ UNCHANGED <<store, written, url_states, state_errors, invoked>>
  /\ UNCHANGED inputs

\* lines 551-569: compile and save the book, or load it
M_Compile ==
  /\ run.pc = "m_compile"
  /\ IF from_agent <= 4
     THEN IF record.cancel_event
          THEN RaiseCancelled
          ELSE /\ record' = OnProgress(record, "compiling")
               /\ invoked' = invoked \cup {<<"compile", 0>>}
               /\ \E ok \in BOOLEAN :
                    IF ok
                    THEN LET b == run_compiler_pipeline(run.enriched_list, orig_urls(run.manifest)) IN
                           /\ store' = save_checkpoint(store, book_output_json, b)
                           /\ written' = written \cup {book_output_json}
                           /\ run' = [run EXCEPT !.book = b, !.pc = "m_compiled_mark", !.idx = 1]
                    ELSE /\ Raise(Exc("CompilationError", <<"compilation error">>))
                         /\ UNCHANGED <<store, written>>
               /\ UNCHANGED <<url_states, state_errors>>
     ELSE /\ run' = [run EXCEPT !.book = load_checkpoint(store, book_output_json),
                                !.pc = "m_compiled_mark", !.idx = 1]
          /\ UNCHANGED job
  /\ UNCHANGED inputs

\* variant: every source is marked COMPILED, whatever its status
M_CompiledMark_mut ==
  /\ run.pc = "m_compiled_mark"
  /\ url_states' = [url_states EXCEPT ![run.idx].status = "compiled"]
  /\ run' = [run EXCEPT !.idx = run.idx + 1,
                        !.pc = IF run.idx >= N THEN "m_pdf" ELSE "m_compiled_mark"]
  /\ UNCHANGED <<inputs, store, written, state_errors, invoked, record>>
\* lines 571-573: one iteration
M_CompiledMark ==
  /\ run.pc = "m_compiled_mark"
  /\ LET i == run.idx IN
       url_states' =
         IF url_states[i].status \in {"enriched", "validated"}
         THEN [url_states EXCEPT ![i].status = "compiled"]
         ELSE url_states
  /\ run' = Advance(run, N, "m_compiled_mark", "m_pdf")
  /\ UNCHANGED <<inputs, store, written, state_errors, invoked, record>>

\* lines 575-584, or 596-599 when no PDF is asked for
M_Pdf ==
  /\ run.pc = "m_pdf"
  /\ IF generate_pdf
     THEN IF record.cancel_event
          THEN RaiseCancelled
          ELSE /\ record' = OnProgress(record, "pdf_generating")
               /\ invoked' = invoked \cup {<<"pdf", 0>>}
               /\ \E ok \in BOOLEAN :
                    IF ok
                    THEN run' = [run EXCEPT !.pdf_output = TRUE, !.pc = "m_pdf_mark", !.idx = 1]
                    ELSE Raise(Exc("PDFGenerationError", <<"pdf error">>))
               /\ UNCHANGED <<store, written, url_states, state_errors>>
     ELSE Return /\ UNCHANGED job
  /\ UNCHANGED inputs

\* lines 585-588: one iteration
M_PdfMark ==
  /\ run.pc = "m_pdf_mark"
  /\ LET i == run.idx IN
       url_states' =
         IF url_states[i].status = "compiled"
         THEN [url_states EXCEPT ![i].status = "pdf_generated"]
         ELSE url_states
  /\ run' = Advance(run, N, "m_pdf_mark", "m_pdf_done")
  /\ UNCHANGED <<inputs, store, written, state_errors, invoked, record>>

\* lines 589-599
M_PdfDone ==
  /\ run.pc = "m_pdf_done"
  /\ IF record.cancel_event
     THEN RaiseCancelled
     ELSE /\ record' = OnProgress(record, "pdf_generating")
          /\ Return
          /\ UNCHANGED <<store, written, url_states, state_errors, invoked>>
  /\ UNCHANGED inputs

run_multi_url_pipeline ==
  \/ M_Download \/ M_DownloadMark
  \/ M_TranscribeStart \/ M_TranscribeBegin \/ M_TranscribeEnd \/ M_TranscribeLoad
  \/ M_EnrichStart \/ M_EnrichBegin \/ M_EnrichEnd \/ M_EnrichLoad
  \/ M_ValidateStart \/ M_Validate \/ M_ValidateEnd
  \/ M_Compile \/ M_CompiledMark \/ M_Pdf \/ M_PdfMark \/ M_PdfDone


\* ------------------------------------------------ run_single_url_pipeline
\* lines 310-314: except Exception: the source is FAILED with str(e), and a
\* PipelineError wrapping the cause is raised
SingleFail(e) ==
  /\ url_states' = [url_states EXCEPT ![1].status = "failed", ![1].error = e.msg]
  /\ state_errors' = Append(state_errors, UrlError(1, e.msg))
  /\ Raise(Exc(PipelineErrorT, <<"Pipeline failed">> \o e.msg))

\* progress_callback raised JobCancelled inside the try block
SingleCancelled ==
  /\ SingleFail(Exc(JobCancelledT, CancelMsg))
  /\ UNCHANGED <<store, written, invoked, record>>

\* lines 126-135 (callback, DOWNLOADING, run_download_pipeline is called) or
\* 151-156 (manifest loaded, DOWNLOADED)
S_Download ==
  /\ run.pc = "s_download"
  /\ IF from_agent <= 1
     THEN IF record.cancel_event
          THEN SingleCancelled
          ELSE /\ record' = OnProgress(record, "downloading")
               /\ url_states' = [url_states EXCEPT ![1].status = "downloading"]
               /\ invoked' = invoked \cup {<<"download", 0>>}
               /\ run' = [run EXCEPT !.pc = "s_download_end"]
               /\ UNCHANGED <<store, written, state_errors>>
     ELSE /\ run' = [run EXCEPT !.manifest = load_checkpoint(store, manifest_json),
                                !.pc = "s_transcribe"]
          /\ url_states' = [url_states EXCEPT ![1].status = "downloaded"]
          /\ UNCHANGED <<store, written, state_errors, invoked, record>>
  /\ UNCHANGED inputs

\* lines 137-146: the download failed (FAILED, PipelineError, re-raised as is by
\* line 308) or succeeded (DOWNLOADED, manifest saved)
S_DownloadEnd ==
  /\ run.pc = "s_download_end"
  /\ \E ok \in BOOLEAN :
       IF ok
       THEN LET m == Manifest(<<TRUE>>) IN
              /\ url_states' = [url_states EXCEPT ![1].status = "downloaded"]
              /\ store' = save_checkpoint(store, manifest_json, m)
              /\ written' = written \cup {manifest_json}
              /\ run' = [run EXCEPT !.manifest = m, !.pc = "s_transcribe"]
       ELSE /\ url_states' = [url_states EXCEPT ![1].status = "failed",
                                                ![1].error = <<"download error">>]
            /\ Raise(Exc(PipelineErrorT, <<"Download failed", "download error">>))
            /\ UNCHANGED <<store, written>>
  /\ UNCHANGED <<inputs, state_errors, invoked, record>>

\* lines 147-149 and 163-177 (callbacks, TRANSCRIBING, the runner is called) or
\* 191-195 (transcript loaded, TRANSCRIBED)
S_Transcribe ==
  /\ run.pc = "s_transcribe"
  /\ IF from_agent <= 2
     THEN IF record.cancel_event
          THEN SingleCancelled
          ELSE /\ record' = OnProgress(record, "transcribing")
               /\ url_states' = [url_states EXCEPT ![1].status = "transcribing"]
               /\ invoked' = invoked \cup {<<"transcribe", 1>>}
               /\ run' = [run EXCEPT !.pc = "s_transcribe_end"]
               /\ UNCHANGED <<store, written, state_errors>>
     ELSE /\ url_states' = [url_states EXCEPT
                              ![1].transcript_output = load_checkpoint(store, transcript_json(1)),
                              ![1].status = "transcribed"]
          /\ run' = [run EXCEPT !.pc = "s_enrich"]
          /\ UNCHANGED <<store, written, state_errors, invoked, record>>
  /\ UNCHANGED inputs

\* lines 178-180
S_TranscribeEnd ==
  /\ run.pc = "s_transcribe_end"
  /\ \E res \in {"ok", "bad", "raise"} :
       IF res # "raise"
       THEN LET t == Transcript(1, res = "bad") IN
              /\ url_states' = [url_states EXCEPT ![1].transcript_output = t,
                                                  ![1].status = "transcribed"]
              /\ store' = save_checkpoint(store, transcript_json(1), t)
              /\ written' = written \cup {transcript_json(1)}
              /\ run' = [run EXCEPT !.pc = "s_enrich"]
              /\ UNCHANGED state_errors
       ELSE /\ SingleFail(Exc("TranscriptionError", <<"transcription error">>))
            /\ UNCHANGED <<store, written>>
  /\ UNCHANGED <<inputs, invoked, record>>

\* lines 181-186 and 198-209, or 223-227
S_Enrich ==
  /\ run.pc = "s_enrich"
  /\ IF from_agent <= 3
     THEN IF record.cancel_event
          THEN SingleCancelled
          ELSE /\ record' = OnProgress(record, "enriching")
               /\ url_states' = [url_states EXCEPT ![1].status = "enriching"]
               /\ invoked' = invoked \cup {<<"enrich", 1>>}
               /\ run' = [run EXCEPT !.pc = "s_enrich_end"]
               /\ UNCHANGED <<store, written, state_errors>>
     ELSE /\ url_states' = [url_states EXCEPT
                              ![1].enriched_output = load_checkpoint(store, enriched_json(1)),
                              ![1].status = "enriched"]
          /\ run' = [run EXCEPT !.pc = "s_validate"]
          /\ UNCHANGED <<store, written, state_errors, invoked, record>>
  /\ UNCHANGED inputs

\* lines 210-212
S_EnrichEnd ==
  /\ run.pc = "s_enrich_end"
  /\ \E ok \in BOOLEAN :
       IF ok
       THEN LET e == Enriched(url_states[1].transcript_output) IN
              /\ url_states' = [url_states EXCEPT ![1].enriched_output = e,
                                                  ![1].status = "enriched"]
              /\ store' = save_checkpoint(store, enriched_json(1), e)
              /\ written' = written \cup {enriched_json(1)}
              /\ run' = [run EXCEPT !.pc = "s_validate"]
              /\ UNCHANGED state_errors
       ELSE /\ SingleFail(Exc("EnrichmentError", <<"enrichment error">>))
            /\ UNCHANGED <<store, written>>
  /\ UNCHANGED <<inputs, invoked, record>>

\* lines 213-218 and 229-237: callbacks, VALIDATING, run_validation_pipeline
S_Validate ==
  /\ run.pc = "s_validate"
  /\ IF record.cancel_event
     THEN SingleCancelled
     ELSE /\ record' = OnProgress(record, "validating")
          /\ url_states' = [url_states EXCEPT ![1].status = "validating"]
          /\ invoked' = invoked \cup {<<"validate", 1>>}
          /\ run' = [run EXCEPT !.pc = "s_validate_end"]
          /\ UNCHANGED <<store, written, state_errors>>
  /\ UNCHANGED inputs

\* lines 238-239, or the ValidationError caught at line 310
S_ValidateEnd ==
  /\ run.pc = "s_validate_end"
  /\ LET t == url_states[1].transcript_output
         e == url_states[1].enriched_output
     IN IF ValidationRaises(t, e)
        THEN /\ SingleFail(Exc(ValidationErrorT, <<"validation failed">>))
             /\ UNCHANGED <<store, written>>
        ELSE /\ url_states' = [url_states EXCEPT ![1].status = "validated"]
             /\ store' = save_checkpoint(store, validation_json(1), Report(t, e))
             /\ written' = written \cup {validation_json(1)}
             /\ run' = [run EXCEPT !.pc = "s_compile"]
             /\ UNCHANGED state_errors
  /\ UNCHANGED <<inputs, invoked, record>>

\* lines 240-245, then 252-267 (callback, COMPILING, the compiler is called) or
\* 277-280 (book loaded, COMPILED)
S_Compile ==
  /\ run.pc = "s_compile"
  /\ IF record.cancel_event
     THEN SingleCancelled
     ELSE IF from_agent <= 4
     THEN /\ record' = OnProgress(record, "compiling")
          /\ url_states' = [url_states EXCEPT ![1].status = "compiling"]
          /\ invoked' = invoked \cup {<<"compile", 0>>}
          /\ run' = [run EXCEPT !.pc = "s_compile_end"]
          /\ UNCHANGED <<store, written, state_errors>>
     ELSE /\ record' = OnProgress(record, "validating")
          /\ url_states' = [url_states EXCEPT ![1].status = "compiled"]
          /\ run' = [run EXCEPT !.book = load_checkpoint(store, book_output_json),
                                !.pc = "s_pdf"]
          /\ UNCHANGED <<store, written, state_errors, invoked>>
  /\ UNCHANGED inputs

\* lines 268-269
S_CompileEnd ==
  /\ run.pc = "s_compile_end"
  /\ \E ok \in BOOLEAN :
       IF ok
       THEN LET pairs == <<[t |-> url_states[1].transcript_output,
                            e |-> url_states[1].enriched_output]>>
                b == run_compiler_pipeline(pairs, orig_urls(run.manifest))
            IN /\ url_states' = [url_states EXCEPT ![1].status = "compiled"]
               /\ store' = save_checkpoint(store, book_output_json, b)
               /\ written' = written \cup {book_output_json}
               /\ run' = [run EXCEPT !.book = b, !.pc = "s_pdf"]
               /\ UNCHANGED state_errors
       ELSE /\ SingleFail(Exc("CompilationError", <<"compilation error">>))
            /\ UNCHANGED <<store, written>>
  /\ UNCHANGED <<inputs, invoked, record>>

\* lines 270-275 (the callback after compiling, when it ran), then 283-292
\* (callback, PDF_GENERATING, the PDF runner is called) or 303-306 (return)
S_Pdf ==
  /\ run.pc = "s_pdf"
  /\ IF (from_agent <= 4 \/ generate_pdf) /\ record.cancel_event
     THEN SingleCancelled
     ELSE IF generate_pdf
     THEN /\ record' = OnProgress(record, "pdf_generating")
          /\ url_states' = [url_states EXCEPT ![1].status = "pdf_generating"]
          /\ invoked' = invoked \cup {<<"pdf", 0>>}
          /\ run' = [run EXCEPT !.pc = "s_pdf_end"]
          /\ UNCHANGED <<store, written, state_errors>>
     ELSE /\ record' = IF from_agent <= 4 THEN OnProgress(record, "compiling") ELSE record
          /\ Return
          /\ UNCHANGED <<store, written, url_states, state_errors, invoked>>
  /\ UNCHANGED inputs

\* lines 293-294
S_PdfEnd ==
  /\ run.pc = "s_pdf_end"
  /\ \E ok \in BOOLEAN :
       IF ok
       THEN /\ url_states' = [url_states EXCEPT ![1].status = "pdf_generated"]
            /\ run' = [run EXCEPT !.pdf_output = TRUE, !.pc = "s_return"]
            /\ UNCHANGED state_errors
       ELSE SingleFail(Exc("PDFGenerationError", <<"pdf error">>))
  /\ UNCHANGED <<inputs, store, written, invoked, record>>

\* lines 295-306: the callback after the PDF, then return
S_Return ==
  /\ run.pc = "s_return"
  /\ IF record.cancel_event
     THEN SingleCancelled
     ELSE /\ record' = OnProgress(record, "pdf_generating")
          /\ Return
          /\ UNCHANGED <<store, written, url_states, state_errors, invoked>>
  /\ UNCHANGED inputs

run_single_url_pipeline ==
  \/ S_Download \/ S_DownloadEnd \/ S_Transcribe \/ S_TranscribeEnd
  \/ S_Enrich \/ S_EnrichEnd \/ S_Validate \/ S_ValidateEnd
  \/ S_Compile \/ S_CompileEnd \/ S_Pdf \/ S_PdfEnd \/ S_Return

\* ------------------------------------------------------------ the next run
\* The worker has ended. The same urls are run again on the same run directory
\* (run_pipeline.py --from-agent, JobManager.retry_job) as a new job.
StartNextRun ==
  /\ run.pc \in {"done", "dead"}
  /\ runNo < MaxRuns
  /\ N <= MaxResumeSources
  /\ \E fa \in 1..5 : from_agent' = fa
  /\ runNo' = runNo + 1
  /\ prev' = [from_agent |-> from_agent,
              returned |-> run.pc = "done" /\ run.raised = NoExc,
              book |-> run.book]
  /\ written' = {}
  /\ url_states' = <<>>
  /\ state_errors' = <<>>
  /\ run' = FreshRun
  /\ invoked' = {}
  /\ record' = JobRecord
  /\ UNCHANGED <<N, mode, generate_pdf, store>>

Next ==
  \/ WorkerStart
  \/ \E force \in BOOLEAN : cancel_job(force)
  \/ Preflight
  \/ run_multi_url_pipeline
  \/ run_single_url_pipeline
  \/ JobFinish
  \/ StartNextRun

Spec == Init /\ [][Next]_vars

\* ------------------------------------------ the resume check on any directory
\* A checkpoint directory holding any subset of the manifest, transcript,
\* enriched and book files of up to MaxSources sources; the manifest, when there
\* is one, records the N urls of the job that wrote it.
StubBook == [kind |-> "book", chapters |-> <<>>, source_references |-> <<>>]

StubContent(f, ok) ==
  CASE f[1] = "manifest" -> Manifest(ok)
    [] f[1] = "transcript" -> Transcript(f[2], FALSE)
    [] f[1] = "enriched" -> Enriched(Transcript(f[2], FALSE))
    [] OTHER -> StubBook

ResumeFiles == Files \ {validation_json(i) : i \in Orders}

InitValidate ==
  /\ N \in 1..MaxSources
  /\ mode = "multi"
  /\ generate_pdf = FALSE
  /\ from_agent \in 1..5
  /\ runNo = 1
  /\ \E P \in SUBSET ResumeFiles : \E ok \in [1..N -> BOOLEAN] :
       store = [f \in Files |-> IF f \in P THEN StubContent(f, ok) ELSE NoFile]
  /\ written = {}
  /\ url_states = <<>>
  /\ state_errors = <<>>
  /\ run \in {[pc |-> "call", url_count |-> uc, result |-> NoExc] :
                uc \in {-1} \cup (1..MaxSources)}
  /\ invoked = {}
  /\ record = JobRecord
  /\ prev = NoPrev

\* validate_checkpoints_for_from_agent(from_agent, output_dir, url_count) is called
ValidateCall ==
  /\ run.pc = "call"
  /\ run' = [run EXCEPT !.pc = "returned",
                        !.result = validate_checkpoints_for_from_agent(
                                      from_agent, store, run.url_count)]
  /\ UNCHANGED <<inputs, store, written, url_states, state_errors, invoked, record>>

NextValidate == ValidateCall

SpecValidate == InitValidate /\ [][NextValidate]_vars

\* The checkpoint files a resume at from_stage needs for sources 1..source_count.
RequiredFiles(from_stage, source_count) ==
  (IF from_stage >= 2 THEN {manifest_json} ELSE {})
    \cup (IF from_stage >= 3 THEN {transcript_json(i) : i \in 1..source_count} ELSE {})
    \cup (IF from_stage >= 4 THEN {enriched_json(i) : i \in 1..source_count} ELSE {})
    \cup (IF from_stage >= 5 THEN {book_output_json} ELSE {})

\* C1: for from_stage in 2..5 and source_count >= 1, the resume check fails if
\* and only if some required checkpoint file (manifest for >= 2, every transcript
\* for >= 3, every enriched file for >= 4, the book for 5) of a source in
\* 1..source_count is absent, and it succeeds if and only if all are present.
C1_ValidateResumable ==
  (run.pc = "returned" /\ from_agent \in 2..5 /\ run.url_count >= 1)
    => (run.result.raised
          <=> (\E f \in RequiredFiles(from_agent, run.url_count) : ~Exists(store, f)))

\* the check failed although only the last source's transcript is absent
C1_Witness ==
  /\ run.pc = "returned"
  /\ from_agent = 5
  /\ run.url_count = MaxSources
  /\ run.result.raised
  /\ {f \in RequiredFiles(5, MaxSources) : ~Exists(store, f)} = {transcript_json(MaxSources)}

\* ------------------------------------------------------ claims on Spec
\* the pipeline function has returned or raised / has returned a book
Ended == run.pc \in {"finish", "done"}
Returned == Ended /\ run.raised = NoExc

\* the numbered stages; the quality gate is not a numbered stage
StageNo(name) ==
  CASE name = "download" -> 1 [] name = "transcribe" -> 2 [] name = "enrich" -> 3
    [] name = "compile" -> 4 [] name = "pdf" -> 5 [] OTHER -> 0

StageInvoked(j) == \E x \in invoked : StageNo(x[1]) = j

\* the result of a stage below from_agent is the one found in the store, which
\* this run has not written
LoadedFromStore(f, value) == f \notin written /\ value = store[f]
\* the result of an executed stage has been saved by this run
SavedByRun(f, value) == f \in written /\ store[f] = value

\* C2 (as the code has it): in a run started with from_stage k no stage below k
\* is ever invoked; when the run returns, the results of the stages below k
\* are the ones loaded from the store, every stage j with k <= j <= 4 was
\* invoked for each source alive at that stage and each result it produced was
\* saved as a checkpoint by this run, and Render was invoked exactly when a PDF
\* was asked for (its result is not checkpointed).
C2_FromStage ==
  /\ \A x \in invoked : StageNo(x[1]) = 0 \/ StageNo(x[1]) >= from_agent
  /\ Returned =>
       LET k == from_agent
           T(i) == url_states[i].transcript_output
           E(i) == url_states[i].enriched_output
       IN /\ IF k <= 1
             THEN <<"download", 0>> \in invoked /\ SavedByRun(manifest_json, run.manifest)
             ELSE LoadedFromStore(manifest_json, run.manifest)
          /\ \A i \in Src :
               /\ k <= 2 => ((<<"transcribe", i>> \in invoked) <=> run.manifest.ok[i])
               /\ T(i) # NoFile =>
                    IF k <= 2 THEN SavedByRun(transcript_json(i), T(i))
                    ELSE LoadedFromStore(transcript_json(i), T(i))
               /\ k <= 3 => ((<<"enrich", i>> \in invoked) <=> T(i) # NoFile)
               /\ E(i) # NoFile =>
                    IF k <= 3 THEN SavedByRun(enriched_json(i), E(i))
                    ELSE LoadedFromStore(enriched_json(i), E(i))
          /\ IF k <= 4
             THEN <<"compile", 0>> \in invoked /\ SavedByRun(book_output_json, run.book)
             ELSE LoadedFromStore(book_output_json, run.book)
          /\ (<<"pdf", 0>> \in invoked) <=> generate_pdf

\* a resumed run from stage 3 has returned: two stages loaded, two executed
C2_Witness ==
  /\ Returned
  /\ from_agent = 3
  /\ runNo >= 2
  /\ ~generate_pdf
  /\ manifest_json \notin written
  /\ book_output_json \in written

\* C2 as stated: when the run returns, no stage below from_stage was invoked and
\* every stage numbered from_stage or above, Render included, was executed.
C2_Original ==
  Returned =>
    \A j \in 1..5 : IF j < from_agent THEN ~StageInvoked(j) ELSE StageInvoked(j)

\* C3: a run started with from_stage >= 2 while a required checkpoint is
\* missing fails in the pre-flight check: it never gets past the check, invokes no
\* stage runner and writes no checkpoint file, and it ends with the pipeline
\* error of the check.
C3_PreflightFailure ==
  (from_agent >= 2 /\ \E f \in RequiredFiles(from_agent, N) : ~Exists(store, f))
    => /\ invoked = {}
       /\ written = {}
       /\ run.pc \in {"queued", "entry", "dead", "finish", "done"}
       /\ Ended => run.raised = Exc(PipelineErrorT, <<"missing checkpoint file(s)">>)

\* a resumed run from stage 4 has failed its check: only an enriched file is missing
C3_Witness ==
  /\ run.pc = "done"
  /\ from_agent = 4
  /\ N = 2
  /\ {f \in RequiredFiles(4, N) : ~Exists(store, f)} = {enriched_json(2)}
  /\ run.raised.type = PipelineErrorT

\* source i went through Download, Transcribe, Enrich and the quality gate
Survives(i) ==
  /\ run.manifest.ok[i]
  /\ url_states[i].transcript_output # NoFile
  /\ url_states[i].enriched_output # NoFile
  /\ ~ValidationRaises(url_states[i].transcript_output, url_states[i].enriched_output)

Survivors == SelectSeq(RangeSeq(N), Survives)

ChapterSources(b) == [k \in 1..Len(b.chapters) |-> b.chapters[k].source]

\* some but not all sources of the run have failed
PartialFailure == Survivors # <<>> /\ Len(Survivors) < N

Dead(i) ==
  \/ url_states[i].status = "failed"
  \/ /\ <<"validate", i>> \in invoked
     /\ url_states[i].enriched_output # NoFile
     /\ ValidationRaises(url_states[i].transcript_output, url_states[i].enriched_output)

AllDead == url_states # <<>> /\ \A i \in Src : Dead(i)

\* C5: in a multi-source run, once every source has failed (all at Download, or
\* every source still alive at Transcribe, Enrich or the quality gate), Compile
\* is never invoked: the run is at the all-failed check of that phase or has
\* ended, and it ends by raising the hard pipeline failure.
C5_AllFail ==
  (mode = "multi" /\ AllDead)
    => /\ <<"compile", 0>> \notin invoked
       /\ run.pc \in {"m_transcribe_start", "m_enrich_start", "m_validate_start",
                      "m_validate_end",
                      "finish", "done"}
       /\ Ended => run.raised.type = PipelineErrorT

\* two sources, one failed at Download and the other at the quality gate
C5_Witness ==
  /\ mode = "multi"
  /\ N = 2
  /\ run.pc = "done"
  /\ AllDead
  /\ url_states[1].status = "failed"
  /\ url_states[2].status = "enriched"
  /\ run.raised = Exc(PipelineErrorT, <<"All outputs failed validation">>)

\* C6: after a run with from_stage = 1 has completed, the re-run of the same
\* sources with from_stage = 4 on the same run directory passes its pre-flight
\* check, invokes none of Download, Transcribe and Enrich, and the book it
\* returns is identical to the first run's.
C6_IdempotentResume ==
  (prev.from_agent = 1 /\ prev.returned /\ from_agent = 4 /\ Ended)
    => /\ run.raised # Exc(PipelineErrorT, <<"missing checkpoint file(s)">>)
       /\ ~StageInvoked(1) /\ ~StageInvoked(2) /\ ~StageInvoked(3)
       /\ Returned => run.book = prev.book

\* the chain of the per-source state machine
Chain ==
  <<"pending", "downloading", "downloaded", "transcribing", "transcribed",
    "enriching", "enriched", "validating", "validated", "compiling", "compiled",
    "pdf_generating", "pdf_generated">>

Rank(st) == CHOOSE k \in 1..Len(Chain) : Chain[k] = st

\* both states hold the sources of the same run
SameRun == url_states # <<>> /\ url_states' # <<>>

ChangedSources == {i \in Src : url_states'[i].status # url_states[i].status}

\* a status change forward along the chain, by one or more places, or to FAILED
ForwardStep(a, b) ==
  \/ b = "failed" /\ a # "failed"
  \/ a # "failed" /\ b # "failed" /\ Rank(a) < Rank(b)

C8_TerminalAtFinish ==
  (Ended /\ ~record.cancel_event /\ url_states # <<>>)
    => \A i \in Src : url_states[i].status \in {"compiled", "pdf_generated", "failed"}

\* C9: a source in the FAILED state carries a non-empty error message, in fresh
\* runs and in resumed runs alike.
C9_FailedHasError ==
  url_states # <<>>
    => \A i \in Src : url_states[i].status = "failed" => url_states[i].error # <<>>

\* the run was stopped by the progress callback raising JobCancelled
CancelStopped ==
  /\ run.raised # NoExc
  /\ \/ run.raised.type = JobCancelledT
     \/ run.raised.msg = <<"Pipeline failed">> \o CancelMsg

\* C10: a run stopped by the cancellation signal ends with the outcome that
\* identifies it as cancelled, never as a pipeline failure.
C10_CancelDistinct ==
  (run.pc = "done" /\ CancelStopped)
    => /\ record.status = "failed"
       /\ record.error = <<"Cancelled by user">>

\* the pipeline is at a stage-transition point: its next step calls the
\* progress callback (the worker's first call included)
TransitionPoint ==
  \/ run.pc = "queued"
  \/ run.pc = "m_download" /\ from_agent <= 1
  \/ run.pc = "m_transcribe_start" /\ Successful # <<>> /\ from_agent <= 2
  \/ run.pc = "m_enrich_start" /\ run.transcripts # <<>> /\ from_agent <= 3
  \/ run.pc = "m_validate_start" /\ run.enriched_list # <<>>
  \/ run.pc = "m_validate_end" /\ run.validated # <<>>
  \/ run.pc = "m_compile" /\ from_agent <= 4
  \/ run.pc = "m_pdf" /\ generate_pdf
  \/ run.pc = "m_pdf_done"
  \/ run.pc = "s_download" /\ from_agent <= 1
  \/ run.pc = "s_transcribe" /\ from_agent <= 2
  \/ run.pc = "s_enrich" /\ from_agent <= 3
  \/ run.pc \in {"s_validate", "s_compile", "s_return"}
  \/ run.pc = "s_pdf" /\ (from_agent <= 4 \/ generate_pdf)

\* C11: cancellation is observed only at stage-transition points: a step that
\* is not a transition point (a running stage among them) never ends the run as
\* cancelled; a transition point reached with the signal set stops the run
\* without beginning a stage; and once stopped no stage begins.
C11_CancelAtTransitions ==
  [][/\ (run.raised = NoExc /\ run.pc # "dead" /\ ~TransitionPoint) => ~CancelStopped'
     /\ (record.cancel_event /\ TransitionPoint /\ run' # run)
          => (invoked' = invoked /\ CancelStopped' /\ run'.pc \in {"finish", "dead"})
     /\ (CancelStopped \/ run.pc = "dead") => invoked' \subseteq invoked]_vars

\* a two-source run was stopped at the transition to Enrich: both transcriptions
\* ran to their end, no enrichment began
C11_Witness ==
  /\ mode = "multi"
  /\ N = 2
  /\ run.pc = "done"
  /\ CancelStopped
  /\ invoked = {<<"download", 0>>, <<"transcribe", 1>>, <<"transcribe", 2>>}
  /\ url_states[1].status = "transcribed"
  /\ url_states[2].status = "transcribed"


\* C12: when a run is cancelled, every source that has not completed ends with
\* status 'cancelled' and error 'Cancelled by user', and that state has been
\* saved by the time the run has returned.
C12_CancelledSources ==
  (run.pc = "done" /\ CancelStopped)
    => /\ \A i \in Src :
            record.url_progress[i].status # "completed"
              => record.url_progress[i] =
                   [status |-> "cancelled", error |-> <<"Cancelled by user">>]
       /\ record.saved


\* ------------------------------------------------ validation agent (agent 3.5)
\* CheckSeverity
CRITICAL == "critical"
WARNING == "warning"

\* The checks in the order run_validation_pipeline calls them (steps 1, 2, 3).
TranscriptStep ==
  <<"sliding_window_repetition", "content_density", "segment_gap_analysis",
    "low_confidence", "language_consistency">>
EnrichmentStep ==
  <<"verification_rate", "cross_reference_consistency",
    "enriched_markdown_repetition", "empty_enrichment", "llm_speculative_content",
    "unverified_refs_in_markdown", "enriched_markdown_sections">>
CrossStep == <<"metadata_duration_consistency">>

CheckNames ==
  {TranscriptStep[k] : k \in DOMAIN TranscriptStep}
    \cup {EnrichmentStep[k] : k \in DOMAIN EnrichmentStep}
    \cup {CrossStep[k] : k \in DOMAIN CrossStep}

\* The severity every _check_* function puts in its CheckResult, on its skipped
\* branch and on its computed branch alike.
SeverityOf(name) ==
  IF name \in {"sliding_window_repetition", "content_density"}
  THEN CRITICAL ELSE WARNING

\* CheckResult (message and details left out)
CheckResult(name, passed) ==
  [check_name |-> name, passed |-> passed, severity |-> SeverityOf(name)]

\* sum(1 for c in all_checks if not c.passed and c.severity == sev)
RECURSIVE CountFailed(_, _)
CountFailed(checks, sev) ==
  IF checks = <<>> THEN 0
  ELSE (IF ~Head(checks).passed /\ Head(checks).severity = sev THEN 1 ELSE 0)
         + CountFailed(Tail(checks), sev)

compute_counts_mut(self) ==
  self

\* ValidationReport.compute_counts, the model validator run after the fields
compute_counts(self) ==
  LET all_checks == self.transcript_checks \o self.enrichment_checks
      critical == CountFailed(all_checks, CRITICAL)
  IN [self EXCEPT !.critical_failures = critical,
                  !.warnings = CountFailed(all_checks, WARNING),
                  !.overall_pass = (critical = 0)]

\* pydantic rejects the construction
FieldError == [kind |-> "pydantic.ValidationError"]

\* ValidationReport(...): the field constraints (ge=0, min_length=1) are
\* checked first, then compute_counts runs.
ValidationReport(tc, ec, op, cf, w, summary) ==
  IF cf < 0 \/ w < 0 \/ summary = <<>>
  THEN FieldError
  ELSE compute_counts([transcript_checks |-> tc, enrichment_checks |-> ec,
                       overall_pass |-> op, critical_failures |-> cf,
                       warnings |-> w, summary |-> summary])

NamesOf(checks) == [k \in DOMAIN checks |-> checks[k].check_name]

build_summary_mut(checks) ==
  LET failed == SelectSeq(checks, LAMBDA c : ~c.passed)
  IN IF failed = <<>>
     THEN <<"All checks passed", Len(checks)>>
     ELSE <<"Validation failed", <<>>,
            NamesOf(SelectSeq(failed, LAMBDA c : c.severity = WARNING))>>

\* _build_summary
build_summary(checks) ==
  LET failed == SelectSeq(checks, LAMBDA c : ~c.passed)
  IN IF failed = <<>>
     THEN <<"All checks passed", Len(checks)>>
     ELSE <<"Validation failed",
            NamesOf(SelectSeq(failed, LAMBDA c : c.severity = CRITICAL)),
            NamesOf(SelectSeq(failed, LAMBDA c : c.severity = WARNING))>>

transcript_check_names ==
  {"sliding_window_repetition", "content_density", "segment_gap_analysis",
   "low_confidence", "language_consistency", "metadata_duration_consistency"}

NoReport == [kind |-> "none"]

\* A call of run_validation_pipeline(transcript, enriched): outcome[name] is what
\* the check called name finds in this (transcript, enriched) pair.
InitGate ==
  /\ N = 1
  /\ mode = "single"
  /\ generate_pdf = FALSE
  /\ from_agent = 1
  /\ runNo = 1
  /\ store = [f \in Files |-> NoFile]
  /\ written = {}
  /\ url_states = <<>>
  /\ state_errors = <<>>
  /\ \E o \in [CheckNames -> BOOLEAN] :
       run = [pc |-> "g_step1", outcome |-> o, all_checks |-> <<>>,
              report |-> NoReport, result |-> NoReport, raised |-> NoExc]
  /\ invoked = {}
  /\ record = JobRecord
  /\ prev = NoPrev

RunChecks(step) == [k \in DOMAIN step |-> CheckResult(step[k], run.outcome[step[k]])]

gate_rest == <<inputs, store, written, url_states, state_errors, invoked, record>>

\* Step 1: transcription quality checks
G_TranscriptChecks ==
  /\ run.pc = "g_step1"
  /\ run' = [run EXCEPT !.pc = "g_step2",
                        !.all_checks = run.all_checks \o RunChecks(TranscriptStep)]
  /\ UNCHANGED gate_rest

\* Step 2: enrichment quality checks
G_EnrichmentChecks ==
  /\ run.pc = "g_step2"
  /\ run' = [run EXCEPT !.pc = "g_step3",
                        !.all_checks = run.all_checks \o RunChecks(EnrichmentStep)]
  /\ UNCHANGED gate_rest

\* Step 3: cross-agent consistency checks
G_CrossChecks ==
  /\ run.pc = "g_step3"
  /\ run' = [run EXCEPT !.pc = "g_step4",
                        !.all_checks = run.all_checks \o RunChecks(CrossStep)]
  /\ UNCHANGED gate_rest

\* Step 4: the checks are split by name and the report is built
G_BuildReport ==
  /\ run.pc = "g_step4"
  /\ run' = [run EXCEPT
       !.pc = "g_verdict",
       !.report = ValidationReport(
          SelectSeq(run.all_checks, LAMBDA c : c.check_name \in transcript_check_names),
          SelectSeq(run.all_checks, LAMBDA c : c.check_name \notin transcript_check_names),
          TRUE, 0, 0, build_summary(run.all_checks))]
  /\ UNCHANGED gate_rest

G_Verdict_mut ==
  /\ run.pc = "g_verdict"
  /\ IF run.report.warnings + run.report.critical_failures > 0
     THEN run' = [run EXCEPT !.pc = "g_raised",
                             !.raised = Exc(ValidationErrorT, run.report.summary)]
     ELSE run' = [run EXCEPT !.pc = "g_returned", !.result = run.report]
  /\ UNCHANGED gate_rest

\* lines 676-679: raise ValidationError(summary) unless the report passes
G_Verdict ==
  /\ run.pc = "g_verdict"
  /\ IF ~run.report.overall_pass
     THEN run' = [run EXCEPT !.pc = "g_raised",
                             !.raised = Exc(ValidationErrorT, run.report.summary)]
     ELSE run' = [run EXCEPT !.pc = "g_returned", !.result = run.report]
  /\ UNCHANGED gate_rest

run_validation_pipeline ==
  \/ G_TranscriptChecks
  \/ G_EnrichmentChecks
  \/ G_CrossChecks
  \/ G_BuildReport
  \/ G_Verdict

SpecGate == InitGate /\ [][run_validation_pipeline]_vars

GateEnded == run.pc \in {"g_raised", "g_returned"}
FailedChecks(sev) == {n \in CheckNames : ~run.outcome[n] /\ SeverityOf(n) = sev}
ReportChecks(r) == r.transcript_checks \o r.enrichment_checks
Recorded(r, n) ==
  \E k \in DOMAIN ReportChecks(r) :
    ReportChecks(r)[k] = [check_name |-> n, passed |-> run.outcome[n],
                          severity |-> SeverityOf(n)]

\* C13: the gate raises if and only if at least one CRITICAL check fails; with
\* no failing CRITICAL check it returns a report that records every failing
\* WARNING check, whatever their number.
C13_CriticalOnly ==
  GateEnded =>
    /\ (run.pc = "g_raised") <=> (FailedChecks(CRITICAL) # {})
    /\ FailedChecks(CRITICAL) = {} =>
         /\ run.raised = NoExc
         /\ run.result # NoReport
         /\ run.result.warnings = Cardinality(FailedChecks(WARNING))
         /\ \A n \in CheckNames : Recorded(run.result, n)

C13_Witness ==
  /\ run.pc = "g_returned"
  /\ Cardinality(FailedChecks(WARNING)) = 11
  /\ run.result.warnings = 11

MaxChecks == 2
MaxSupplied == 2

\* check results a caller can hand over, whatever check made them
AnyCheck ==
  {[check_name |-> "content_density", passed |-> p, severity |-> s] :
     p \in BOOLEAN, s \in {CRITICAL, WARNING}}

CheckLists == UNION {[1..n -> AnyCheck] : n \in 0..MaxChecks}

\* The keyword arguments of a ValidationReport(...) call.
InitReport ==
  /\ N = 1
  /\ mode = "single"
  /\ generate_pdf = FALSE
  /\ from_agent = 1
  /\ runNo = 1
  /\ store = [f \in Files |-> NoFile]
  /\ written = {}
  /\ url_states = <<>>
  /\ state_errors = <<>>
  /\ \E tc \in CheckLists, ec \in CheckLists, op \in BOOLEAN,
        cf \in (-1)..MaxSupplied, w \in (-1)..MaxSupplied,
        s \in {<<>>, <<"summary">>} :
       run = [pc |-> "r_args",
              args |-> [transcript_checks |-> tc, enrichment_checks |-> ec,
                        overall_pass |-> op, critical_failures |-> cf,
                        warnings |-> w, summary |-> s],
              report |-> NoReport]
  /\ invoked = {}
  /\ record = JobRecord
  /\ prev = NoPrev

FromFields(a) ==
  ValidationReport(a.transcript_checks, a.enrichment_checks, a.overall_pass,
                   a.critical_failures, a.warnings, a.summary)

\* ValidationReport(**args)
R_Construct ==
  /\ run.pc = "r_args"
  /\ run' = [run EXCEPT !.pc = "r_built", !.report = FromFields(run.args)]
  /\ UNCHANGED gate_rest

\* save_validation_checkpoint then load_validation_checkpoint: the report is
\* dumped to JSON and built again from the stored fields by model_validate_json
R_Reload ==
  /\ run.pc = "r_built"
  /\ run.report # FieldError
  /\ run' = [run EXCEPT !.pc = "r_loaded", !.report = FromFields(run.report)]
  /\ UNCHANGED gate_rest

NextReport ==
  \/ R_Construct
  \/ R_Reload

SpecReport == InitReport /\ [][NextReport]_vars

IsReport == run.pc \in {"r_built", "r_loaded"} /\ run.report # FieldError
FailedIn(r, sev) ==
  Cardinality({k \in DOMAIN r.transcript_checks :
                 ~r.transcript_checks[k].passed /\ r.transcript_checks[k].severity = sev})
  + Cardinality({k \in DOMAIN r.enrichment_checks :
                 ~r.enrichment_checks[k].passed /\ r.enrichment_checks[k].severity = sev})

\* C15: whatever values were passed at construction, a ValidationReport has
\* critical_failures equal to the number of failed CRITICAL checks in its check
\* lists, warnings equal to the number of failed WARNING checks, and
\* overall_pass true exactly when critical_failures is 0.
C15_DerivedAggregates ==
  IsReport =>
    /\ run.report.transcript_checks = run.args.transcript_checks
    /\ run.report.enrichment_checks = run.args.enrichment_checks
    /\ run.report.critical_failures = FailedIn(run.report, CRITICAL)
    /\ run.report.warnings = FailedIn(run.report, WARNING)
    /\ run.report.overall_pass = (run.report.critical_failures = 0)

C15_Witness ==
  /\ run.pc = "r_built"
  /\ run.args.overall_pass /\ run.args.critical_failures = 0 /\ run.args.warnings = 2
  /\ run.report # FieldError
  /\ ~run.report.overall_pass
  /\ run.report.critical_failures = 2
  /\ run.report.warnings = 1


\* -------------------------------------------------- EnrichedNotes construction
MaxRefs == 2

\* canonical_ref of the references a lecture can cite
CanonicalRefs == {"BG 2.47", "SB 1.2.6"}

\* VerificationResult: the reference and the status of the lookup
VerificationResults ==
  {[reference |-> r, status |-> s] :
     r \in CanonicalRefs, s \in {"verified", "not_found", "cache_only"}}

SeqsUpTo(S, n) == UNION {[1..k -> S] : k \in 0..n}

ValueErrorT == "ValueError"

\* EnrichedNotes.validate_all_refs_have_verification
validate_all_refs_have_verification(self) ==
  LET ref_keys == {self.references_found[k] : k \in DOMAIN self.references_found}
      ver_keys == {self.verifications[k].reference : k \in DOMAIN self.verifications}
      unver_keys == {self.unverified_references[k] :
                       k \in DOMAIN self.unverified_references}
      covered == ver_keys \cup unver_keys
      missing == ref_keys \ covered
  IN IF missing # {} THEN Exc(ValueErrorT, missing) ELSE NoExc

\* EnrichedNotes.compute_verification_rate, in ten-thousandths (round(x, 4))
compute_verification_rate(self) ==
  LET total == Len(self.references_found)
      verified == Len(SelectSeq(self.verifications,
                                LAMBDA v : v.status \in {"verified", "cache_only"}))
  IN IF total > 0
     THEN [self EXCEPT !.verification_rate = (verified * 20000 + total) \div (2 * total)]
     ELSE self

\* verification_rate: float = Field(default=0.0, ge=0.0, le=1.0), in
\* ten-thousandths
RateFieldOk(rate) == 0 <= rate /\ rate <= 10000

\* EnrichedNotes(...): the field constraints are checked on the values passed,
\* then the two after-validators run in the order of declaration; what a
\* validator assigns is not checked again
EnrichedNotes(found, vers, unver, rate) ==
  LET self == [references_found |-> found, verifications |-> vers,
               unverified_references |-> unver, verification_rate |-> rate]
  IN IF ~RateFieldOk(rate)
     THEN [raised |-> Exc(FieldError.kind, <<"verification_rate">>), notes |-> NoReport]
     ELSE IF validate_all_refs_have_verification(self) # NoExc
     THEN [raised |-> validate_all_refs_have_verification(self), notes |-> NoReport]
     ELSE [raised |-> NoExc, notes |-> compute_verification_rate(self)]

\* the verification_rate values a caller passes (0.0 is the default)
SuppliedRates == {0, 5000, 10000, 15000}

\* The reference lists of an EnrichedNotes(...) call.
InitNotes ==
  /\ N = 1
  /\ mode = "single"
  /\ generate_pdf = FALSE
  /\ from_agent = 1
  /\ runNo = 1
  /\ store = [f \in Files |-> NoFile]
  /\ written = {}
  /\ url_states = <<>>
  /\ state_errors = <<>>
  /\ \E found \in SeqsUpTo(CanonicalRefs, MaxRefs),
        vers \in SeqsUpTo(VerificationResults, MaxRefs),
        unver \in SeqsUpTo(CanonicalRefs, MaxRefs),
        rate \in SuppliedRates :
       run = [pc |-> "n_args", references_found |-> found, verifications |-> vers,
              unverified_references |-> unver, verification_rate |-> rate,
              built |-> NoReport,
              result |-> [raised |-> NoExc, notes |-> NoReport]]
  /\ invoked = {}
  /\ record = JobRecord
  /\ prev = NoPrev

\* EnrichedNotes(**args)
N_Construct ==
  /\ run.pc = "n_args"
  /\ run' = [run EXCEPT !.pc = "n_built",
                        !.result = EnrichedNotes(run.references_found, run.verifications,
                                                 run.unverified_references,
                                                 run.verification_rate)]
  /\ UNCHANGED gate_rest

\* save_enriched_checkpoint then load_enriched_checkpoint: model_dump_json
\* writes the fields of the instance, model_validate_json builds an
\* EnrichedNotes from them
N_Reload ==
  /\ run.pc = "n_built"
  /\ run.result.raised = NoExc
  /\ LET x == run.result.notes IN
       run' = [run EXCEPT !.pc = "n_loaded",
                          !.built = x,
                          !.result = EnrichedNotes(x.references_found, x.verifications,
                                                   x.unverified_references,
                                                   x.verification_rate)]
  /\ UNCHANGED gate_rest

NextNotes ==
  \/ N_Construct
  \/ N_Reload

SpecNotes == InitNotes /\ [][NextNotes]_vars

InVerifications(r) ==
  \E k \in DOMAIN run.verifications : run.verifications[k].reference = r
InUnverified(r) ==
  \E k \in DOMAIN run.unverified_references : run.unverified_references[k] = r

\* C16: constructing an EnrichedNotes succeeds if and only if every found
\* reference appears in exactly one of verifications and
\* unverified_references.
C16_ExactlyOne ==
  run.pc = "n_built" =>
    ((run.result.raised = NoExc)
       <=> \A k \in DOMAIN run.references_found :
             InVerifications(run.references_found[k])
               # InUnverified(run.references_found[k]))


\* ------------------------------------------------- run directories (utils.py)
MaxJobs == 2
MaxSubmits == 3

\* what the callers pass: one url, or a title and a list of urls
Gita == "https://example.com/gita.mp3"
Sb == "https://example.com/sb.mp3"
SourceSets ==
  {[url |-> Gita, urls |-> <<>>, title |-> ""],
   [url |-> Sb, urls |-> <<>>, title |-> ""],
   [url |-> "", urls |-> <<Gita, Sb>>, title |-> "Lecture Notes"],
   [url |-> "", urls |-> <<Gita, Sb>>, title |-> "Series"]}

\* base output directories
Bases == {"output", "output2"}

\* Path(unquote(urlparse(url).path)).stem, cleaned by the two re.sub calls
Stem(url) == IF url = Gita THEN "gita" ELSE "sb"

\* hashlib.sha256(text).hexdigest()[:8], taken as injective: the digest of a
\* text is named by the text
Hash8(text) == <<"sha256", text>>

\* url_to_slug(url)
url_to_slug(url) == <<Stem(url), Hash8(<<url>>)>>

\* title_to_slug(title, urls)
title_to_slug(title, urls) ==
  IF title = "" \/ title = "Lecture Notes"
  THEN (IF urls # <<>> THEN url_to_slug(urls[1]) ELSE <<"run">>)
  ELSE <<title, Hash8(urls)>>

\* resolve_run_dir, lines 119-124: the slug of a new run
SlugOf(src) ==
  IF src.url # "" THEN url_to_slug(src.url)
  ELSE IF src.urls # <<>>
       THEN title_to_slug(IF src.title = "" THEN "Lecture Notes" ELSE src.title, src.urls)
       ELSE <<"run">>

Slugs == {SlugOf(s) : s \in SourceSets}

\* sorted(base.iterdir()): the run folders in the order of their names
SortedSlugs == <<title_to_slug("Series", <<Gita, Sb>>), url_to_slug(Gita), url_to_slug(Sb)>>

\* content of the .latest_run file: no file, an empty file, or a slug
NoMarker == <<"no file">>
EmptyMarker == <<>>

IdleJob == [pc |-> "idle"]

\* a base directory before any run
EmptyBase == [marker |-> NoMarker, dirs |-> [s \in Slugs |-> "absent"]]

InitRunDir ==
  /\ N = 1
  /\ mode = "single"
  /\ generate_pdf = FALSE
  /\ from_agent = 1
  /\ runNo = 1
  /\ store = [f \in Files |-> NoFile]
  /\ written = {}
  /\ url_states = <<>>
  /\ state_errors = <<>>
  /\ run = [pc |-> "rd", fs |-> [b \in Bases |-> EmptyBase],
            jobs |-> [j \in 1..MaxJobs |-> IdleJob], submits |-> 0]
  /\ invoked = {}
  /\ record = JobRecord
  /\ prev = NoPrev

\* a pipeline function is entered with these sources, output_dir and from_agent
\* (orchestrator.py 103-107, 366-371); output_dir is a base directory, or, when
\* explicit, the run folder itself
RD_Call(j) ==
  /\ run.jobs[j] = IdleJob
  /\ run.submits < MaxSubmits
  /\ \E src \in SourceSets, b \in Bases, resume \in BOOLEAN, explicit \in BOOLEAN :
       /\ explicit => resume
       /\ run' = [run EXCEPT
            !.submits = @ + 1,
            !.jobs[j] = [pc |-> IF resume THEN "resume" ELSE "mkdir",
                         src |-> src, base |-> b, resume |-> resume,
                         explicit |-> explicit,
                         read |-> NoMarker, had_run |-> FALSE, run_dir |-> <<>>]]
  /\ UNCHANGED gate_rest

\* lines 119-127: run_dir.mkdir(parents=True, exist_ok=True)
RD_Mkdir(j) ==
  LET job_j == run.jobs[j] IN
  /\ job_j.pc = "mkdir"
  /\ run' = [run EXCEPT
       !.fs[job_j.base].dirs[SlugOf(job_j.src)] = IF @ = "absent" THEN "dir" ELSE @,
       !.jobs[j].pc = "marker_open"]
  /\ UNCHANGED gate_rest

\* line 131, write_text: the marker file is opened for writing, which
\* truncates it
RD_MarkerOpen(j) ==
  LET job_j == run.jobs[j] IN
  /\ job_j.pc = "marker_open"
  /\ run' = [run EXCEPT !.fs[job_j.base].marker = EmptyMarker,
                        !.jobs[j].pc = "marker_write"]
  /\ UNCHANGED gate_rest

\* line 131, write_text: the slug is written and the file closed; line 133
RD_MarkerWrite(j) ==
  LET job_j == run.jobs[j] IN
  /\ job_j.pc = "marker_write"
  /\ run' = [run EXCEPT !.fs[job_j.base].marker = SlugOf(job_j.src),
                        !.jobs[j].pc = "running",
                        !.jobs[j].run_dir = <<job_j.base, SlugOf(job_j.src)>>]
  /\ UNCHANGED gate_rest

\* the first folder of sorted(base.iterdir()) that holds checkpoints/
RECURSIVE Scan(_, _)
Scan(dirs, k) ==
  IF k > Len(SortedSlugs) THEN <<>>
  ELSE IF dirs[SortedSlugs[k]] = "ckpt" THEN <<SortedSlugs[k]>>
  ELSE Scan(dirs, k + 1)

\* resolve_run_dir, lines 101-116, for a base directory without checkpoints/
ResumeDir(base, marker, dirs) ==
  IF marker # NoMarker /\ marker # EmptyMarker /\ dirs[marker] = "ckpt"
  THEN <<base, marker>>
  ELSE IF Scan(dirs, 1) # <<>> THEN <<base, Scan(dirs, 1)[1]>>
  ELSE <<base>>

\* lines 96-116: a resume resolves its directory (the marker is read in one
\* read_text call)
RD_Resume(j) ==
  LET job_j == run.jobs[j]
      f == run.fs[job_j.base]
      own == SlugOf(job_j.src)
  IN
  /\ job_j.pc = "resume"
  /\ run' = [run EXCEPT
       !.jobs[j].pc = "running",
       !.jobs[j].had_run = (f.dirs[own] = "ckpt"),
       !.jobs[j].read = IF job_j.explicit THEN NoMarker ELSE f.marker,
       !.jobs[j].run_dir =
          IF job_j.explicit THEN <<job_j.base, own>>
          ELSE ResumeDir(job_j.base, f.marker, f.dirs)]
  /\ UNCHANGED gate_rest

\* a new run saves its first checkpoint: _checkpoint_dir creates checkpoints/
\* in the run folder (a resumed run only writes where checkpoints/ exists)
RD_SaveCheckpoint(j) ==
  LET job_j == run.jobs[j] IN
  /\ job_j.pc = "running"
  /\ ~job_j.resume
  /\ run' = [run EXCEPT !.fs[job_j.base].dirs[job_j.run_dir[2]] = "ckpt"]
  /\ UNCHANGED gate_rest

\* the pipeline function returns or raises
RD_End(j) ==
  /\ run.jobs[j] # IdleJob
  /\ run.jobs[j].pc = "running"
  /\ run' = [run EXCEPT !.jobs[j] = IdleJob]
  /\ UNCHANGED gate_rest

NextRunDir ==
  \E j \in 1..MaxJobs :
    \/ RD_Call(j)
    \/ RD_Mkdir(j)
    \/ RD_MarkerOpen(j)
    \/ RD_MarkerWrite(j)
    \/ RD_Resume(j)
    \/ RD_SaveCheckpoint(j)
    \/ RD_End(j)

SpecRunDir == InitRunDir /\ [][NextRunDir]_vars

Active(j) ==
  run.jobs[j] # IdleJob /\ run.jobs[j].pc = "running" /\ Len(run.jobs[j].run_dir) = 2

\* C17: any two runs that are active at the same time resolve to different run
\* directories, whatever their sources and base output directory.
C17_DistinctRunDirs ==
  \A i, j \in 1..MaxJobs :
    (i # j /\ Active(i) /\ Active(j)) => run.jobs[i].run_dir # run.jobs[j].run_dir

\* C18: a reader resolving the run directory concurrently with a writer of the
\* latest-run marker never observes an empty or partially written value.
C18_AtomicMarker ==
  \A j \in 1..MaxJobs :
    (run.jobs[j] # IdleJob /\ run.jobs[j].pc = "running")
      => run.jobs[j].read # EmptyMarker

\* C19: a resume given only the base output directory resolves to the run
\* directory holding the checkpoints of the run for those same sources,
\* whatever other runs exist under the base directory.
C19_ResumeFindsRun ==
  \A j \in 1..MaxJobs :
    (Active(j) /\ ~run.jobs[j].explicit /\ run.jobs[j].had_run)
      => run.jobs[j].run_dir = <<run.jobs[j].base, SlugOf(run.jobs[j].src)>>


\* ------------------------------------------------------ JobManager worker pool
MAX_CONCURRENT_JOBS == 2
MaxPoolJobs == 4

PoolJobs == 1..MaxPoolJobs

\* JobManager.__init__: ThreadPoolExecutor(max_workers=MAX_CONCURRENT_JOBS), no
\* thread started, no job stored
InitPool ==
  /\ N = 1
  /\ mode = "single"
  /\ generate_pdf = FALSE
  /\ from_agent = 1
  /\ runNo = 1
  /\ store = [f \in Files |-> NoFile]
  /\ written = {}
  /\ url_states = <<>>
  /\ state_errors = <<>>
  /\ run = [pc |-> "pool", threads |-> 0, work_queue |-> <<>>,
            executing |-> [j \in {} |-> "start"],
            status |-> [j \in {} |-> "queued"],
            cancel_event |-> {}]
  /\ invoked = {}
  /\ record = JobRecord
  /\ prev = NoPrev

P_Submit_mut ==
  /\ Cardinality(DOMAIN run.status) < MaxPoolJobs
  /\ LET j == Cardinality(DOMAIN run.status) + 1 IN
     run' = [run EXCEPT
       !.status = [k \in DOMAIN run.status \cup {j} |->
                     IF k = j THEN "queued" ELSE run.status[k]],
       !.work_queue = Append(@, j),
       !.threads = @ + 1]
  /\ UNCHANGED gate_rest

\* submit_job / retry_job: the record is stored as QUEUED and
\* self._executor.submit(self._run_pipeline, record) puts it on the work queue;
\* the executor starts a worker thread while it has fewer than max_workers
P_Submit ==
  /\ Cardinality(DOMAIN run.status) < MaxPoolJobs
  /\ LET j == Cardinality(DOMAIN run.status) + 1 IN
     run' = [run EXCEPT
       !.status = [k \in DOMAIN run.status \cup {j} |->
                     IF k = j THEN "queued" ELSE run.status[k]],
       !.work_queue = Append(@, j),
       !.threads = IF @ < MAX_CONCURRENT_JOBS THEN @ + 1 ELSE @]
  /\ UNCHANGED gate_rest

\* an idle worker thread takes the next work item and enters _run_pipeline,
\* which sets the record RUNNING (line 339)
P_Take ==
  /\ run.work_queue # <<>>
  /\ Cardinality(DOMAIN run.executing) < run.threads
  /\ LET j == Head(run.work_queue) IN
     run' = [run EXCEPT
       !.work_queue = Tail(@),
       !.executing = [k \in DOMAIN run.executing \cup {j} |->
                        IF k = j THEN "start" ELSE run.executing[k]],
       !.status[j] = "running"]
  /\ UNCHANGED gate_rest

\* line 376, the first _on_progress call, made before the try block: with the
\* cancel event set JobCancelled leaves _run_pipeline and the thread is free
P_FirstProgress(j) ==
  /\ j \in DOMAIN run.executing
  /\ run.executing[j] = "start"
  /\ IF j \in run.cancel_event
     THEN run' = [run EXCEPT
            !.executing = [k \in DOMAIN run.executing \ {j} |-> run.executing[k]]]
     ELSE run' = [run EXCEPT !.executing[j] = "pipeline"]
  /\ UNCHANGED gate_rest

\* lines 378-460: the Orchestrator run returns or raises; the record is
\* COMPLETED or FAILED and the thread is free
P_Finish(j) ==
  /\ j \in DOMAIN run.executing
  /\ run.executing[j] = "pipeline"
  /\ \E outcome \in {"completed", "failed"} :
       /\ run' = [run EXCEPT
            !.executing = [k \in DOMAIN run.executing \ {j} |-> run.executing[k]],
            !.status[j] = outcome]
  /\ UNCHANGED gate_rest

\* cancel_job(job_id, force) on a QUEUED or RUNNING job: the work item stays
\* where it is
P_Cancel(j) ==
  /\ j \in DOMAIN run.status
  /\ run.status[j] \in {"queued", "running"}
  /\ \E force \in BOOLEAN :
       run' = [run EXCEPT
         !.cancel_event = @ \cup {j},
         !.status[j] = IF force \/ j \in run.cancel_event THEN "failed" ELSE @]
  /\ UNCHANGED gate_rest

NextPool ==
  \/ P_Submit
  \/ P_Take
  \/ \E j \in PoolJobs :
       \/ P_FirstProgress(j)
       \/ P_Finish(j)
       \/ P_Cancel(j)

SpecPool == InitPool /\ [][NextPool]_vars

Waiting == {run.work_queue[k] : k \in DOMAIN run.work_queue}

CompileStarted == <<"compile", 0>> \in invoked
PerSourceFiles == Files \ {manifest_json, book_output_json}

\* C21: in a multi-source run the Compile stage starts only when the
\* transcript and enriched checkpoints of every source it is given are in the
\* store, holding the very values it is given; from the start of Compile to
\* the end of the run no per-source checkpoint is written.
C21_CompileBarrier ==
  [][(mode = "multi" /\ runNo' = runNo /\ CompileStarted')
       => /\ ~CompileStarted =>
               \A k \in DOMAIN run.enriched_list :
                 LET pair == run.enriched_list[k] IN
                   /\ store[transcript_json(pair.t.src)] = pair.t
                   /\ store[enriched_json(pair.e.src)] = pair.e
                   /\ store'[transcript_json(pair.t.src)] = pair.t
                   /\ store'[enriched_json(pair.e.src)] = pair.e
          /\ \A f \in PerSourceFiles : store'[f] = store[f]
          /\ written' \ written \subseteq {book_output_json}]_vars

C21_Witness ==
  /\ mode = "multi" /\ N = 3 /\ from_agent = 1 /\ runNo = 1
  /\ CompileStarted /\ run.pc = "m_compiled_mark"
  /\ Len(run.enriched_list) = 2
  /\ {transcript_json(1), enriched_json(1), transcript_json(3), enriched_json(3)}
       \subseteq written
  /\ enriched_json(2) \notin written
  /\ book_output_json \in written


StageNames == <<"download", "transcribe", "enrich", "validate", "compile", "pdf">>
StageCauses ==
  <<"download error", "transcription error", "enrichment error", "validation failed",
    "compilation error", "pdf error">>
StageFiles ==
  <<manifest_json, transcript_json(1), enriched_json(1), validation_json(1),
    book_output_json>>

\* the run ended with the error of a failed stage, the k-th of StageNames
FailedAt(k) ==
  /\ Ended
  /\ run.raised # NoExc
  /\ run.raised.msg[Len(run.raised.msg)] = StageCauses[k]

StageFailed == \E k \in DOMAIN StageNames : FailedAt(k)

\* C22: in a single-source run the first stage that fails ends the run with a
\* PipelineError carrying the cause: no later stage has been invoked and
\* neither the failed stage nor a later one has written a checkpoint; a pair
\* the quality gate rejects is never handed to Compile.
C22_SingleFailFast ==
  mode = "single" =>
    /\ run.raised # NoExc => run.pc \in {"finish", "done", "dead"}
    /\ \A k \in DOMAIN StageNames :
         FailedAt(k) =>
           /\ run.raised.type = PipelineErrorT
           /\ \E x \in invoked : x[1] = StageNames[k]
           /\ \A x \in invoked : \E j \in 1..k : x[1] = StageNames[j]
           /\ \A j \in k..Len(StageFiles) : StageFiles[j] \notin written
           /\ url_states[1].status = "failed"
    /\ (\E x \in invoked : x[1] = "compile")
         => ~url_states[1].transcript_output.bad

C22_Witness ==
  /\ mode = "single" /\ from_agent = 1 /\ run.pc = "done"
  /\ FailedAt(4)
  /\ run.raised = Exc(PipelineErrorT, <<"Pipeline failed", "validation failed">>)
  /\ written = {manifest_json, transcript_json(1), enriched_json(1)}
  /\ invoked = {<<"download", 0>>, <<"transcribe", 1>>, <<"enrich", 1>>, <<"validate", 1>>}


ErrorsOf(i) == {k \in DOMAIN state_errors : state_errors[k].url = i}

\* C23: every per-source failure a multi-source run tolerates is recorded as
\* an error entry attributed to exactly one source, with its cause: every
\* entry names a source of the run, and every source that failed in the run (a
\* run from stage 1, where no failure is inherited from a manifest) has its
\* entry.
C23_ErrorsAttributed ==
  (mode = "multi" /\ url_states # <<>>) =>
    /\ \A k \in DOMAIN state_errors :
         /\ state_errors[k].url \in Src
         /\ state_errors[k].error # <<>>
    /\ from_agent = 1 =>
         \A i \in Src :
           url_states[i].status = "failed" => Cardinality(ErrorsOf(i)) = 1


\* C24: for every instance x of a stage contract type, loading the checkpoint
\* written by save(x) returns a value equal to x field for field (here for
\* EnrichedNotes and its reference lists and verification_rate).
C24_RoundTrip ==
  run.pc = "n_loaded" =>
    /\ run.result.raised = NoExc
    /\ run.result.notes = run.built


\* the paths listed in the error, as a set
Listed == {run.result.missing[k] : k \in DOMAIN run.result.missing}
\* the source count the check works with: the one passed, else the number of
\* successful results of the manifest
EffectiveCount ==
  IF run.url_count = -1 /\ Exists(store, manifest_json)
  THEN CountSuccess(store[manifest_json]) ELSE run.url_count

VALIDATION_SLIDING_WINDOW_SIZE == 50
VALIDATION_SLIDING_REPETITION_THRESHOLD == 6000

\* the transcripts are built from at most MaxBlocks runs of equal segments
MaxBlocks == 3
BlockLens == {1, 20, 30, 31}

\* Segment.text as a sequence of characters; two of the texts differ only in
\* a leading blank
SegmentTexts == {<<"O", "m">>, <<" ", "O", "m">>, <<"H", "a", "r", "e">>}
Whitespace == {" "}

\* str.strip(): leading and trailing whitespace removed
RECURSIVE strip(_)
strip(text) ==
  IF text = <<>> THEN text
  ELSE IF Head(text) \in Whitespace THEN strip(Tail(text))
  ELSE IF text[Len(text)] \in Whitespace THEN strip(SubSeq(text, 1, Len(text) - 1))
  ELSE text

\* texts = [s.text.strip() for s in segments[i : i + window]] (i counted from 0)
WindowTexts(segments, i, window) == [k \in 1..window |-> strip(segments[i + k])]

\* counts.most_common(1)[0][1]
MostCommonCount(texts) ==
  LET CountOf(t) == Cardinality({k \in DOMAIN texts : texts[k] = t})
      counts == {CountOf(texts[k]) : k \in DOMAIN texts}
  IN CHOOSE c \in counts : \A d \in counts : d <= c

\* variant: only the window at position 0 is examined
WindowStarts_mut(n, window) == {0}

\* range(len(segments) - window + 1)
WindowStarts(n, window) == 0..(n - window)

\* the largest most_common_count of any window (worst_ratio * window)
WorstCount(segments, window) ==
  LET per == {MostCommonCount(WindowTexts(segments, i, window)) :
                i \in WindowStarts(Len(segments), window)}
  IN CHOOSE c \in per : \A d \in per : d <= c

\* _check_sliding_window_repetition(transcript); worst_ratio is
\* details["worst_ratio"] in ten-thousandths, -1 on the skipped branch
check_sliding_window_repetition(segments) ==
  LET window == VALIDATION_SLIDING_WINDOW_SIZE IN
  IF Len(segments) < window
  THEN [check_name |-> "sliding_window_repetition", passed |-> TRUE,
        severity |-> CRITICAL, skipped |-> TRUE, worst_ratio |-> -1]
  ELSE LET worst == WorstCount(segments, window) IN
       [check_name |-> "sliding_window_repetition",
        passed |-> worst * 10000 <= VALIDATION_SLIDING_REPETITION_THRESHOLD * window,
        severity |-> CRITICAL, skipped |-> FALSE,
        worst_ratio |-> (worst * 20000 + window) \div (2 * window)]

InitWindow ==
  /\ N = 1
  /\ mode = "single"
  /\ generate_pdf = FALSE
  /\ from_agent = 1
  /\ runNo = 1
  /\ store = [f \in Files |-> NoFile]
  /\ written = {}
  /\ url_states = <<>>
  /\ state_errors = <<>>
  /\ run = [pc |-> "w_build", segments |-> <<>>, blocks |-> 0, result |-> NoReport]
  /\ invoked = {}
  /\ record = JobRecord
  /\ prev = NoPrev

\* the transcriber emits n more segments with the same text
W_AddBlock ==
  /\ run.pc = "w_build"
  /\ run.blocks < MaxBlocks
  /\ \E text \in SegmentTexts, n \in BlockLens :
       run' = [run EXCEPT !.segments = @ \o [k \in 1..n |-> text],
                          !.blocks = @ + 1]
  /\ UNCHANGED gate_rest

\* _check_sliding_window_repetition(transcript) (segments has min_length 1)
W_Check ==
  /\ run.pc = "w_build"
  /\ Len(run.segments) >= 1
  /\ run' = [run EXCEPT !.pc = "w_checked",
                        !.result = check_sliding_window_repetition(run.segments)]
  /\ UNCHANGED gate_rest

NextWindow ==
  \/ W_AddBlock
  \/ W_Check

SpecWindow == InitWindow /\ [][NextWindow]_vars

\* some window of `window` consecutive segments holds more than 0.6 * window
\* segments equal to one of them under Same
RepeatedIn(segments, window, Same(_, _)) ==
  \E i \in 0..(Len(segments) - window) :
    \E k \in (i + 1)..(i + window) :
      Cardinality({j \in (i + 1)..(i + window) : Same(segments[j], segments[k])}) * 10
        > 6 * window

SameStripped(a, b) == strip(a) = strip(b)
SameExact(a, b) == a = b

\* C26 (as the code has it): the sliding_window_repetition check is CRITICAL;
\* it fails if and only if the transcript has at least 50 segments and in some
\* window of 50 consecutive segments one text, compared after stripping
\* leading and trailing whitespace, makes up more than 0.6 of the window; with
\* fewer than 50 segments it is skipped and passes.
C26_SlidingWindow ==
  run.pc = "w_checked" =>
    /\ run.result.severity = CRITICAL
    /\ Len(run.segments) < 50 => (run.result.passed /\ run.result.skipped)
    /\ ~run.result.passed
         <=> (Len(run.segments) >= 50 /\ RepeatedIn(run.segments, 50, SameStripped))

\* 60 identical segments fail with ratio 1.0
C26_Witness ==
  /\ run.pc = "w_checked"
  /\ Len(run.segments) = 60
  /\ \A k \in DOMAIN run.segments : run.segments[k] = run.segments[1]
  /\ ~run.result.passed
  /\ run.result.worst_ratio = 10000
  /\ run.result.severity = CRITICAL

\* C26 as stated: the check fails if and only if there are at least 50
\* segments and some window of 50 holds an exact text with a share above 0.6.
C26_Original ==
  run.pc = "w_checked" =>
    (~run.result.passed
       <=> (Len(run.segments) >= 50 /\ RepeatedIn(run.segments, 50, SameExact)))


\* --------------------------------------------------- content_density (SpecDensity)
\* config/constants.py, words per minute
VALIDATION_MIN_WORDS_PER_MINUTE == 10

\* full_text is built from at most MaxPieces pieces, a word or a blank each
MaxPieces == 11
TextPieces == {<<"a", "a", "a", "a">>, <<" ">>}
\* TranscriptOutput.full_text: Field(min_length=20)
FullTextMinLength == 20
\* duration_seconds in milliseconds (on this grid the float quotients of the
\* code order as the exact ones do)
Durations == {0, 20000, 29999, 30000, 30001, 30030, 35999, 36000, 36001, 3600000}

\* len(full_text.split()): the maximal runs of non-whitespace characters
WordCount(text) ==
  Cardinality({k \in DOMAIN text :
                 /\ text[k] \notin Whitespace
                 /\ (k = 1 \/ text[k - 1] \in Whitespace)})

\* variant: the comparison is strict
DensityPassed_mut(word_count, ms) ==
  word_count * 60000 > VALIDATION_MIN_WORDS_PER_MINUTE * ms

\* words_per_minute >= VALIDATION_MIN_WORDS_PER_MINUTE, where
\* words_per_minute = word_count / (duration_seconds / 60.0)
DensityPassed(word_count, ms) ==
  word_count * 60000 >= VALIDATION_MIN_WORDS_PER_MINUTE * ms

\* _check_content_density(transcript); duration_minutes < 0.5 is ms < 30000
check_content_density(full_text, ms) ==
  IF ms < 30000
  THEN [check_name |-> "content_density", passed |-> TRUE,
        severity |-> CRITICAL, skipped |-> TRUE]
  ELSE [check_name |-> "content_density",
        passed |-> DensityPassed(WordCount(full_text), ms),
        severity |-> CRITICAL, skipped |-> FALSE]

InitDensity ==
  /\ N = 1
  /\ mode = "single"
  /\ generate_pdf = FALSE
  /\ from_agent = 1
  /\ runNo = 1
  /\ store = [f \in Files |-> NoFile]
  /\ written = {}
  /\ url_states = <<>>
  /\ state_errors = <<>>
  /\ \E ms \in Durations :
       run = [pc |-> "d_build", full_text |-> <<>>, pieces |-> 0,
              duration_ms |-> ms, result |-> NoReport]
  /\ invoked = {}
  /\ record = JobRecord
  /\ prev = NoPrev

\* the transcriber appends a word or a blank to full_text
D_AddPiece ==
  /\ run.pc = "d_build"
  /\ run.pieces < MaxPieces
  /\ \E piece \in TextPieces :
       run' = [run EXCEPT !.full_text = @ \o piece, !.pieces = @ + 1]
  /\ UNCHANGED gate_rest

\* _check_content_density(transcript) on a constructed TranscriptOutput
D_Check ==
  /\ run.pc = "d_build"
  /\ Len(run.full_text) >= FullTextMinLength
  /\ run' = [run EXCEPT !.pc = "d_checked",
                        !.result = check_content_density(run.full_text, run.duration_ms)]
  /\ UNCHANGED gate_rest

NextDensity ==
  \/ D_AddPiece
  \/ D_Check

SpecDensity == InitDensity /\ [][NextDensity]_vars

\* the words of a text: its pieces that are not blanks, counted at their first
\* character after a blank or at the start
WordsOf(text) ==
  Cardinality({k \in 1..Len(text) : text[k] = "a" /\ (k = 1 \/ text[k - 1] = " ")})

MaxUrls == 3
MaxCount == 3
Urls == {"https://youtube.com/watch?v=a", "https://youtube.com/watch?v=b"}
DownloadErrorT == "DownloadError"
NoPath == "none"
\* wav_path of _download_single: audio/lecture_{order:03d}.wav
wav_path(order) == <<"audio", order>>

\* DownloadResult(...), validate_success_has_path; error "" stands for None
DownloadResult(url, order, success, audio_path, error) ==
  IF (success /\ audio_path = NoPath) \/ (~success /\ error = "")
  THEN [raised |-> Exc(ValueErrorT, <<"DownloadResult">>), value |-> NoReport]
  ELSE [raised |-> NoExc,
        value |-> [url |-> url, order |-> order, success |-> success,
                   audio_path |-> audio_path, error |-> error]]

\* variant: validate_counts is left out
BatchSummary_mut(total_urls, successful, failed, skipped_duplicate) ==
  [raised |-> NoExc,
   value |-> [total_urls |-> total_urls, successful |-> successful,
              failed |-> failed, skipped_duplicate |-> skipped_duplicate]]

\* BatchSummary(...): the field constraints, then validate_counts
BatchSummary(total_urls, successful, failed, skipped_duplicate) ==
  IF total_urls < 1 \/ successful < 0 \/ failed < 0 \/ skipped_duplicate < 0
  THEN [raised |-> Exc(FieldError.kind, <<"BatchSummary">>), value |-> NoReport]
  ELSE IF successful + failed + skipped_duplicate # total_urls
  THEN [raised |-> Exc(ValueErrorT, <<"validate_counts">>), value |-> NoReport]
  ELSE [raised |-> NoExc,
        value |-> [total_urls |-> total_urls, successful |-> successful,
                   failed |-> failed, skipped_duplicate |-> skipped_duplicate]]

\* DownloadManifest(results=..., batch_summary=...): results has min_length 1,
\* then validate_result_count
DownloadManifest(results, batch_summary) ==
  IF Len(results) < 1
  THEN [raised |-> Exc(FieldError.kind, <<"results">>), value |-> NoReport]
  ELSE IF Len(results) # batch_summary.total_urls
  THEN [raised |-> Exc(ValueErrorT, <<"validate_result_count">>), value |-> NoReport]
  ELSE [raised |-> NoExc,
        value |-> [results |-> results, batch_summary |-> batch_summary]]

\* what _download_single comes to for a URL: a successful result, a failed
\* result, or an exception (a failure whose error text is empty)
DownloadOutcomes == {"ok", "failed", "raises"}

download_single(url, order, outcome) ==
  CASE outcome = "ok" -> DownloadResult(url, order, TRUE, wav_path(order), "")
    [] outcome = "failed" -> DownloadResult(url, order, FALSE, NoPath, "Download failed")
    [] OTHER -> DownloadResult(url, order, FALSE, NoPath, "")

\* variant: a second occurrence is not recognised
IsDuplicate_mut(url, seen_urls) == FALSE

\* url in seen_urls
IsDuplicate(url, seen_urls) == url \in DOMAIN seen_urls

\* sum(1 for r in results if r.success) / if not r.success
CountResults(results, flag) ==
  Cardinality({k \in DOMAIN results : results[k].success = flag})

NoArgs == [total_urls |-> 0, successful |-> 0, failed |-> 0,
           skipped_duplicate |-> 0, nresults |-> 0]

DownloadRun(pc, urls, args) ==
  [pc |-> pc, urls |-> urls, i |-> 1, results |-> <<>>, seen_urls |-> <<>>,
   calls |-> <<>>, raised |-> NoExc, manifest |-> NoReport, args |-> args]

InitDownload ==
  /\ N = 1
  /\ mode = "single"
  /\ generate_pdf = FALSE
  /\ from_agent = 1
  /\ runNo = 1
  /\ store = [f \in Files |-> NoFile]
  /\ written = {}
  /\ url_states = <<>>
  /\ state_errors = <<>>
  /\ \/ \E urls \in SeqsUpTo(Urls, MaxUrls) : run = DownloadRun("dl_start", urls, NoArgs)
     \/ \E t, s, f, k, n \in 0..MaxCount :
          run = DownloadRun("dm_args", <<>>,
                            [total_urls |-> t, successful |-> s, failed |-> f,
                             skipped_duplicate |-> k, nresults |-> n])
  /\ invoked = {}
  /\ record = JobRecord
  /\ prev = NoPrev

\* run_download_pipeline(urls, output_dir): if not urls: raise DownloadError
DL_Begin ==
  /\ run.pc = "dl_start"
  /\ run' = IF run.urls = <<>>
            THEN [run EXCEPT !.pc = "dl_done",
                             !.raised = Exc(DownloadErrorT, <<"No URLs provided">>)]
            ELSE [run EXCEPT !.pc = "dl_loop"]
  /\ UNCHANGED gate_rest

\* one iteration of the loop on a URL already in seen_urls
DL_Duplicate ==
  /\ run.pc = "dl_loop"
  /\ run.i <= Len(run.urls)
  /\ IsDuplicate(run.urls[run.i], run.seen_urls)
  /\ LET url == run.urls[run.i]
         earlier == run.results[run.seen_urls[url]]
         r == DownloadResult(url, run.i, earlier.success, earlier.audio_path,
                             IF ~earlier.success THEN "Duplicate of URL" ELSE "")
     IN run' = IF r.raised # NoExc
               THEN [run EXCEPT !.pc = "dl_done", !.raised = r.raised]
               ELSE [run EXCEPT !.results = Append(@, r.value), !.i = @ + 1]
  /\ UNCHANGED gate_rest

\* one iteration of the loop on a new URL: _download_single is called
DL_Fetch ==
  /\ run.pc = "dl_loop"
  /\ run.i <= Len(run.urls)
  /\ ~IsDuplicate(run.urls[run.i], run.seen_urls)
  /\ \E outcome \in DownloadOutcomes :
       LET url == run.urls[run.i]
           seen == [u \in DOMAIN run.seen_urls \cup {url} |->
                      IF u = url THEN run.i ELSE run.seen_urls[u]]
           r == download_single(url, run.i, outcome)
       IN run' = IF r.raised # NoExc
                 THEN [run EXCEPT !.pc = "dl_done", !.raised = r.raised,
                                  !.seen_urls = seen, !.calls = Append(@, url)]
                 ELSE [run EXCEPT !.results = Append(@, r.value), !.i = @ + 1,
                                  !.seen_urls = seen, !.calls = Append(@, url)]
  /\ UNCHANGED gate_rest

\* after the loop: BatchSummary(total_urls=len(results), ...) and
\* DownloadManifest(results=results, batch_summary=batch_summary, ...)
DL_Build ==
  /\ run.pc = "dl_loop"
  /\ run.i > Len(run.urls)
  /\ LET b == BatchSummary(Len(run.results), CountResults(run.results, TRUE),
                           CountResults(run.results, FALSE), 0)
         m == IF b.raised # NoExc THEN b ELSE DownloadManifest(run.results, b.value)
     IN run' = [run EXCEPT !.pc = "dl_done", !.raised = m.raised, !.manifest = m.value]
  /\ UNCHANGED gate_rest

\* a caller constructs BatchSummary and DownloadManifest from its own values
DM_Construct ==
  /\ run.pc = "dm_args"
  /\ LET a == run.args
         results == [k \in 1..a.nresults |->
                       DownloadResult("https://youtube.com/watch?v=a", k, TRUE,
                                      wav_path(k), "").value]
         b == BatchSummary(a.total_urls, a.successful, a.failed, a.skipped_duplicate)
         m == IF b.raised # NoExc THEN b ELSE DownloadManifest(results, b.value)
     IN run' = [run EXCEPT !.pc = "dm_built", !.results = results,
                           !.raised = m.raised, !.manifest = m.value]
  /\ UNCHANGED gate_rest

NextDownload ==
  \/ DL_Begin
  \/ DL_Duplicate
  \/ DL_Fetch
  \/ DL_Build
  \/ DM_Construct

SpecDownload == InitDownload /\ [][NextDownload]_vars

InBatch == run.pc \in {"dl_loop", "dl_done"}
\* the position of the first occurrence of the URL at position k
FirstOccurrence(k) == CHOOSE j \in 1..k : run.urls[j] = run.urls[k] /\ \A h \in 1..(j - 1) : run.urls[h] # run.urls[k]

\* C28: within one download batch each distinct source is fetched at most
\* once, and every later occurrence of a source carries the success flag and
\* the audio artifact of its first occurrence, no download having been made
\* for it.
C28_Dedup ==
  InBatch =>
    /\ \A a, b \in DOMAIN run.calls : run.calls[a] = run.calls[b] => a = b
    /\ Len(run.calls) <= Cardinality({run.urls[k] : k \in DOMAIN run.urls})
    /\ \A k \in DOMAIN run.results :
         LET first == run.results[FirstOccurrence(k)] IN
           /\ run.results[k].url = run.urls[k]
           /\ run.results[k].success = first.success
           /\ run.results[k].audio_path = first.audio_path

\* a batch a, b, a whose first source succeeded: two downloads, the third
\* result carries the audio of the first
C28_Witness ==
  /\ run.pc = "dl_done"
  /\ Len(run.urls) = 3
  /\ run.urls[1] = run.urls[3]
  /\ run.urls[1] # run.urls[2]
  /\ Len(run.calls) = 2
  /\ Len(run.results) = 3
  /\ run.results[1].success
  /\ run.results[3].success
  /\ run.results[3].audio_path = wav_path(1)

\* C29: every DownloadManifest, whether the download runner built it (with
\* duplicates and failures) or a caller constructed it, has successful +
\* failed + skipped_duplicate equal to the number of sources and one result
\* per source; values violating this are rejected at construction.
C29_ManifestCounts ==
  /\ run.manifest # NoReport =>
       LET m == run.manifest IN
         /\ m.batch_summary.successful + m.batch_summary.failed
              + m.batch_summary.skipped_duplicate = m.batch_summary.total_urls
         /\ Len(m.results) = m.batch_summary.total_urls
         /\ run.pc = "dl_done" => Len(m.results) = Len(run.urls)
  /\ (run.pc = "dl_done" /\ run.raised = NoExc) => run.manifest # NoReport
  /\ run.pc = "dm_built" =>
       (run.manifest # NoReport
          <=> /\ run.args.total_urls >= 1
              /\ run.args.successful + run.args.failed + run.args.skipped_duplicate
                   = run.args.total_urls
              /\ run.args.nresults = run.args.total_urls)

\* a batch of three with a duplicate and a failure yields a manifest
C29_Witness ==
  /\ run.pc = "dl_done"
  /\ run.manifest # NoReport
  /\ Len(run.urls) = 3
  /\ Len(run.calls) = 2
  /\ run.manifest.batch_summary.successful = 2
  /\ run.manifest.batch_summary.failed = 1


\* the verifications passed whose status is verified or cache_only
VerifiedCount ==
  Cardinality({k \in DOMAIN run.verifications :
                 run.verifications[k].status \in {"verified", "cache_only"}})

\* C30: the verification_rate of every constructed EnrichedNotes is the ratio
\* (verifications with status verified or cache_only) / (found references),
\* to four decimals, and does not depend on the value the caller passed: with
\* no found reference it is the default 0.0.
C30_RateComputed ==
  (run.pc = "n_built" /\ run.result.raised = NoExc) =>
    LET total == Len(run.references_found)
        rate == run.result.notes.verification_rate
    IN /\ total > 0 =>
            /\ 2 * (rate * total - VerifiedCount * 10000) <= total
            /\ 2 * (VerifiedCount * 10000 - rate * total) <= total
       /\ total = 0 => rate = 0


\* C31: every per-source checkpoint written during a run (transcript,
\* enriched, validation) is stored under the 1-based order of the source it
\* was produced from, also when earlier sources have failed.
C31_OrderOfSource ==
  \A f \in written \cap PerSourceFiles : store[f].src = f[2]


\* the numbered stage whose result a checkpoint file holds (0: the quality gate)
StageOfFile(f) ==
  CASE f[1] = "manifest" -> 1 [] f[1] = "transcript" -> 2 [] f[1] = "enriched" -> 3
    [] f[1] = "book" -> 4 [] OTHER -> 0

\* C32: when a run with from_stage k returns, every checkpoint file present
\* in the run directory for a stage >= k that the run executed was written by
\* this run; none is left over from an earlier run.
C32_OverwriteStale ==
  Returned =>
    \A f \in Files :
      (Exists(store, f) /\ StageOfFile(f) >= from_agent /\ StageInvoked(StageOfFile(f)))
        => f \in written


\* the worker thread of the job has ended (returned, or died on an exception)
WorkerEnded == run.pc \in {"done", "dead"}

\* C33: when a job's pipeline run has ended, COMPLETED or FAILED (cancelled
\* included), its job metadata record has been written to disk by the time
\* the worker finishes.
C33_SavedAtEnd ==
  (run.pc = "done" /\ record.status \in {"completed", "failed"}) => record.saved


\* --------------------------------------------- JobManager retries (SpecJob)
MaxJobRuns == 2

\* _detect_resume_agent: step_to_agent.get(record.current_step, 1)
step_to_agent(step) ==
  CASE step = "downloading" -> 1 [] step = "transcribing" -> 2 [] step = "enriching" -> 3
    [] step = "validating" -> 2 [] step = "compiling" -> 4 [] step = "pdf_generating" -> 5
    [] OTHER -> 1

\* JobManager._detect_resume_agent(record)
detect_resume_agent(rec, s) ==
  IF ~rec.output_dir THEN 1
  ELSE LET default == step_to_agent(rec.current_step) IN
       IF default >= 2 /\ ~Exists(s, manifest_json) THEN 1
       ELSE IF default >= 3 /\ ~Exists(s, transcript_json(1)) THEN 2
       ELSE default

\* the last stage the pipeline function called before it raised
LastStep ==
  IF <<"pdf", 0>> \in invoked THEN "pdf_generating"
  ELSE IF <<"compile", 0>> \in invoked THEN "compiling"
  ELSE IF \E i \in Src : <<"validate", i>> \in invoked THEN "validating"
  ELSE IF \E i \in Src : <<"enrich", i>> \in invoked THEN "enriching"
  ELSE IF \E i \in Src : <<"transcribe", i>> \in invoked THEN "transcribing"
  ELSE IF <<"download", 0>> \in invoked THEN "downloading"
  ELSE "none"

\* submit_job: the worker is started with from_agent 1 on a fresh directory
InitJob ==
  /\ N \in 1..MaxResumeSources
  /\ mode = (IF N = 1 THEN "single" ELSE "multi")
  /\ generate_pdf \in BOOLEAN
  /\ from_agent = 1
  /\ runNo = 1
  /\ store = [f \in Files |-> NoFile]
  /\ written = {}
  /\ url_states = <<>>
  /\ state_errors = <<>>
  /\ run = FreshRun
  /\ invoked = {}
  /\ record = JobRecord
  /\ prev = NoPrev

\* JobManager.retry_job(job_id, request): the original is FAILED; a new record
\* with the original's urls, config and output_dir is queued with the
\* from_agent of the request, else the one _detect_resume_agent returns
\* (explicit 0: the request names none). The original's worker has ended.
RetryJob ==
  /\ WorkerEnded
  /\ record.status = "failed"
  /\ runNo < MaxJobRuns
  /\ \E explicit \in 0..5 :
       /\ from_agent' = IF explicit # 0 THEN explicit
                        ELSE detect_resume_agent(record, store)
       /\ prev' = [from_agent |-> from_agent, returned |-> FALSE, book |-> run.book,
                   explicit |-> explicit, failed_step |-> LastStep,
                   raised |-> run.raised, done |-> written]
  /\ runNo' = runNo + 1
  /\ written' = {}
  /\ url_states' = <<>>
  /\ state_errors' = <<>>
  /\ run' = FreshRun
  /\ invoked' = {}
  /\ record' = [JobRecord EXCEPT !.output_dir = record.output_dir]
  /\ UNCHANGED <<N, mode, generate_pdf, store>>

\* the steps of the worker thread of the job
WorkerStep ==
  \/ WorkerStart
  \/ Preflight
  \/ run_multi_url_pipeline
  \/ run_single_url_pipeline
  \/ JobFinish

NextJob ==
  \/ WorkerStep
  \/ \E force \in BOOLEAN : cancel_job(force)
  \/ RetryJob

SpecJob == InitJob /\ [][NextJob]_vars

\* the executor runs a submitted worker, and a running worker goes on
SpecJobLive == SpecJob /\ WF_vars(WorkerStep)

\* C34: a retry without an explicit from_agent, of a job that failed at a
\* stage after the stages before it had completed and been checkpointed,
\* starts at the stage mapped from the failed one and does not execute the
\* completed stages again.
C34_RetryResumes ==
  (runNo = 2 /\ prev.explicit = 0 /\ prev.raised.type \notin {"none", JobCancelledT}
     /\ step_to_agent(prev.failed_step) >= 2
     /\ \A f \in Files : (StageOfFile(f) \in 1..(step_to_agent(prev.failed_step) - 1)
                            /\ f[2] <= N) => f \in prev.done)
    => /\ from_agent = step_to_agent(prev.failed_step)
       /\ \A x \in invoked : StageNo(x[1]) = 0 \/ StageNo(x[1]) >= from_agent


Terminal == {"completed", "failed"}

\* C35: a job's status only moves queued -> running -> completed or failed,
\* and once it is completed or failed it never changes again, whatever the
\* interleaving of cancel requests and worker steps.
C35_StatusMonotone ==
  [][runNo' = runNo =>
       /\ record.status \in Terminal => record'.status = record.status
       /\ record.status = "running" => record'.status # "queued"]_vars


\* C36: every job whose cancellation has been requested while it is queued
\* or running eventually reaches a terminal status, whether the request came
\* before the worker picked the job up or during a stage.
C36_CancelTerminates ==
  (record.cancel_event /\ record.status \in {"queued", "running"})
    ~> (record.status \in Terminal)


\* the sources of the surviving set handed to Compile
Surviving == {run.enriched_list[k].e.src : k \in DOMAIN run.enriched_list}

\* C37: when run_many returns a book, a source is COMPILED (or PDF_GENERATED)
\* if and only if it is in the surviving set that was passed to Compile, and
\* every other source (failed at a stage or dropped by the quality gate) is
\* FAILED.
C37_CompiledIffSurviving ==
  (mode = "multi" /\ Returned) =>
    \A i \in Src :
      /\ url_states[i].status \in {"compiled", "pdf_generated"} <=> i \in Surviving
      /\ i \notin Surviving => url_states[i].status = "failed"


\* the sources of the chapters of the book the previous run returned
PrevSurviving == {prev.book.chapters[k].source : k \in DOMAIN prev.book.chapters}

\* the previous run, a fresh one, returned a book although the transcription
\* or the enrichment of a downloaded source had failed
PrevPartialSuccess ==
  /\ runNo = 2
  /\ prev.from_agent = 1
  /\ prev.returned
  /\ Exists(store, manifest_json)
  /\ \E i \in Src :
       /\ store[manifest_json].ok[i]
       /\ ~Exists(store, transcript_json(i)) \/ ~Exists(store, enriched_json(i))
       /\ i \notin PrevSurviving

\* C38: after a run_many that ended with partial success, a re-run of the
\* same sources on the same run directory with from_stage 3 or 4 passes the
\* pre-flight check and compiles the same surviving set.
C38_ResumeAfterPartial ==
  (mode = "multi" /\ PrevPartialSuccess /\ from_agent \in {3, 4}) =>
    /\ run.raised # Exc(PipelineErrorT, <<"missing checkpoint file(s)">>)
    /\ CompileStarted => Surviving = PrevSurviving


\* C39: in the book compiled by run_many, the source reference of each
\* chapter names the URL of the source whose transcript and enrichment
\* produced the chapter, whatever sources failed after a successful download.
C39_SourceReferences ==
  (mode = "multi" /\ book_output_json \in written /\ run.book # NoFile) =>
    /\ Len(run.book.source_references) = Len(run.book.chapters)
    /\ \A k \in DOMAIN run.book.chapters :
         run.book.source_references[k].url = <<"url", run.book.chapters[k].source>>


\* ------------------------------------------- inferred source set (SpecValidate)
\* the per-source paths (transcripts, enriched notes) listed in the error
ListedPerSource == {f \in Listed : f[1] \in {"transcript", "enriched"}}
\* the sources the manifest records as successfully downloaded, by their order
ManifestSucceeded == {i \in DOMAIN store[manifest_json].ok : store[manifest_json].ok[i]}
\* the per-source checkpoints stage from_agent needs of source i
PerSourceRequired(fa, i) ==
  (IF fa >= 3 THEN {transcript_json(i)} ELSE {})
    \cup (IF fa >= 4 THEN {enriched_json(i)} ELSE {})

\* C40: when no source count is passed and the manifest exists, the resume check
\* requires the per-source checkpoints of exactly the sources the manifest
\* records as successfully downloaded, under their original 1-based order: the
\* per-source paths it reports missing are the absent ones of those sources.
C40_InferredSources ==
  (run.pc = "returned" /\ run.url_count = -1 /\ Exists(store, manifest_json)
     /\ from_agent \in 3..5) =>
    ListedPerSource =
      {f \in UNION {PerSourceRequired(from_agent, i) : i \in ManifestSucceeded} :
         ~Exists(store, f)}

====
